---- MODULE Spec2Model ----
(***************************************************************************)
(* Word Master Challenge: the daily quiz session (spelling phase, reading  *)
(* phase, final queue reordering), its letter-input lock, the homophone    *)
(* separator and the word-queue store operations it calls.                 *)
(*                                                                         *)
(* JavaScript runs one continuation at a time; every action below is one   *)
(* synchronous run of code between two awaits (or one DOM event handler up *)
(* to its first await).  The pending continuations are the records of the  *)
(* sequence "tasks"; a task's pc names the await it is suspended at.       *)
(* Store operations (storage.js) are applied as one step when their        *)
(* promise resolves; "calls" lists the external calls (store writes,       *)
(* speech requests, sync, navigation) issued by the last step.             *)
(* Replay buttons (repeat-btn, hear-again-btn), sounds, timestamps and     *)
(* audio blobs carry no session state and are left out.                    *)
(***************************************************************************)
EXTENDS Integers, Sequences, FiniteSets, TLC

(* ---------------------------- bounds ----------------------------------- *)
MaxWords == 3          \* words in the learner's queue: 0..MaxWords
MaxQuizLen == 3        \* child.quizLength ranges over 1..MaxQuizLen
MaxErrors == 1         \* wrong letters accepted per session by the model
MaxReadMiss == 1       \* "practice more" answers per session in the model
MaxDone == 2           \* clicks on Done per session in the model
MaxOverlap == 1        \* assessment clicks while a response is in flight
MaxOverlapQuiz == 1    \* longest quizLength at which such clicks are explored
MaxUntaught == 1       \* untaught words in the queue when the session opens
MaxSepLen == 4         \* length of the sequences given to the separator
MaxStoreWords == 3     \* words ever stored when the store is checked alone
MaxStoreDeleted == 1   \* soft-deleted words there
MaxStoreFailed == 1    \* failed attempts recorded there, over all words
MaxReadLen == 7        \* completed words when the transition is checked alone

(* ------------------------ program constants ---------------------------- *)
ShuffleAbove == 6      \* reading queues longer than this are shuffled
NegInfinity == -1000   \* stands for -Infinity, Math.max() of an empty list

(* ------------------------- vocabulary ---------------------------------- *)
\* Word ids 1..4 are the learner's words; 5..8 only feed the separator.
Texts ==
  << <<"t","o">>, <<"t","w","o">>, <<"n","o">>, <<"o","n">>,
     <<"k","n","o","w">>, <<"t","h","e","r","e">>, <<"t","h","e","i","r">>,
     <<"d","o","g">> >>

WordText(id) == Texts[id]

Letters == {"t", "w", "o", "n"}

\* String.prototype.toLowerCase on one letter
LowerLetter(l) ==
  CASE l = "T" -> "t" [] l = "W" -> "w" [] l = "O" -> "o" [] l = "N" -> "n"
    [] OTHER -> l

toLowerCase(s) == [i \in 1..Len(s) |-> LowerLetter(s[i])]

Min(a, b) == IF a < b THEN a ELSE b
Max(a, b) == IF a > b THEN a ELSE b

Range(s) == {s[i] : i \in DOMAIN s}

RemoveAt(s, i) == SubSeq(s, 1, i - 1) \o SubSeq(s, i + 1, Len(s))

\* Array.prototype.splice(idx, 0, x) with a 0-based idx
SpliceIn(s, idx, x) == SubSeq(s, 1, idx) \o <<x>> \o SubSeq(s, idx + 1, Len(s))

(* ------------------------ homophone separator -------------------------- *)
HOMOPHONE_PAIRS ==
  << << <<"t","h","e","r","e">>, <<"t","h","e","i","r">> >>,
     << <<"t","o">>, <<"t","w","o">> >>,
     << <<"k","n","o","w">>, <<"n","o">> >> >>

\* HOMOPHONE_PAIRS.some(pair => pair.includes(a) && pair.includes(b))
AreHomophones(a, b) ==
  \E p \in DOMAIN HOMOPHONE_PAIRS :
    /\ a \in Range(HOMOPHONE_PAIRS[p])
    /\ b \in Range(HOMOPHONE_PAIRS[p])

SwapAt(s, a, b) == [s EXCEPT ![a] = s[b], ![b] = s[a]]

\* mutant: the last position of the queue is taken
FindCandidateLast(result, i, j) ==
  IF j > Len(result) THEN 0 ELSE Len(result)

\* the inner loop: first j >= from whose word is no homophone of result[i]
RECURSIVE FindCandidate(_, _, _)
FindCandidate(result, i, j) ==
  IF j > Len(result) THEN 0
  ELSE IF ~AreHomophones(toLowerCase(WordText(result[i])),
                         toLowerCase(WordText(result[j])))
       THEN j
       ELSE FindCandidate(result, i, j + 1)

\* the outer loop, i is 1-based here (i = 1 .. length-1)
RECURSIVE SeparateFrom(_, _)
SeparateFrom(result, i) ==
  IF i > Len(result) - 1 THEN result
  ELSE IF AreHomophones(toLowerCase(WordText(result[i])),
                        toLowerCase(WordText(result[i + 1])))
       THEN LET j == FindCandidate(result, i, i + 2)
            IN  IF j = 0 THEN SeparateFrom(result, i + 1)
                ELSE SeparateFrom(SwapAt(result, i + 1, j), i + 1)
       ELSE SeparateFrom(result, i + 1)

separateHomophones(queue) ==
  IF Len(queue) < 2 THEN queue ELSE SeparateFrom(queue, 1)

(* ----------------------------- the store ------------------------------- *)
\* ws: word id -> record; the ids of one learner
NewWord(pos, drilled) ==
  [position |-> pos, drilled |-> drilled, deleted |-> FALSE,
   attempts |-> 0, successes |-> 0, errors |-> 0,
   sightReadViews |-> 0, sightReadKnown |-> 0]

Live(ws) == {id \in DOMAIN ws : ~ws[id].deleted}

\* rank of a live word in sortBy('position') (ties in primary-key order)
Rank(ws, id) ==
  Cardinality({j \in Live(ws) :
                 \/ ws[j].position < ws[id].position
                 \/ ws[j].position = ws[id].position /\ j < id})

getWords(ws) ==
  [k \in 1..Cardinality(Live(ws)) |->
     CHOOSE id \in Live(ws) : Rank(ws, id) = k - 1]

SetMax(S) == CHOOSE m \in S : \A x \in S : x <= m

\* Math.max() of no positions is -Infinity, and -Infinity + 1 is -Infinity
moveWordToBack(ws, wordId) ==
  IF wordId \notin DOMAIN ws THEN ws
  ELSE LET maxPosition == IF Live(ws) = {} THEN NegInfinity
                          ELSE SetMax({ws[j].position : j \in Live(ws)})
           moved == [ws EXCEPT ![wordId].position =
                                  IF maxPosition = NegInfinity THEN NegInfinity
                                  ELSE maxPosition + 1]
       IN  [j \in DOMAIN ws |->
              IF j \in Live(moved)
              THEN [moved[j] EXCEPT !.position = Rank(moved, j)]
              ELSE moved[j]]

\* mutant: the target position is not clamped to the queue
moveWordToPositionUnclamped(ws, wordId, target) ==
  IF wordId \notin DOMAIN ws THEN ws
  ELSE [j \in DOMAIN ws |->
          IF j = wordId THEN [ws[j] EXCEPT !.position = target]
          ELSE IF j \in Live(ws) /\ ws[j].position > ws[wordId].position
                  /\ ws[j].position <= target
          THEN [ws[j] EXCEPT !.position = @ - 1]
          ELSE ws[j]]

moveWordToPosition(ws, wordId, target) ==
  IF wordId \notin DOMAIN ws THEN ws
  ELSE LET currentPosition == ws[wordId].position
           maxPosition == Cardinality(Live(ws)) - 1
           targetPosition == Max(0, Min(target, maxPosition))
       IN  IF currentPosition = targetPosition THEN ws
           ELSE [j \in DOMAIN ws |->
                   IF j = wordId
                   THEN [ws[j] EXCEPT !.position = targetPosition]
                   ELSE IF j \notin Live(ws) THEN ws[j]
                   ELSE IF /\ currentPosition < targetPosition
                           /\ ws[j].position > currentPosition
                           /\ ws[j].position <= targetPosition
                   THEN [ws[j] EXCEPT !.position = @ - 1]
                   ELSE IF /\ currentPosition > targetPosition
                           /\ ws[j].position >= targetPosition
                           /\ ws[j].position < currentPosition
                   THEN [ws[j] EXCEPT !.position = @ + 1]
                   ELSE ws[j]]

markWordDrilled(ws, wordId) ==
  IF wordId \notin DOMAIN ws THEN ws
  ELSE [ws EXCEPT ![wordId].drilled = TRUE]

recordAttempt(ws, wordId, success, errorCount) ==
  IF wordId \notin DOMAIN ws THEN ws
  ELSE [ws EXCEPT ![wordId].attempts = @ + 1,
                  ![wordId].successes = @ + (IF success THEN 1 ELSE 0),
                  ![wordId].errors = @ + errorCount]

\* mutant: a viewed card is also sent to the back of the queue
recordSightReadToBack(ws, wordId, recognized) ==
  IF wordId \notin DOMAIN ws THEN ws
  ELSE [ws EXCEPT ![wordId].sightReadViews = @ + 1,
                  ![wordId].sightReadKnown = @ + (IF recognized THEN 1 ELSE 0),
                  ![wordId].position = Cardinality(Live(ws))]

recordSightRead(ws, wordId, recognized) ==
  IF wordId \notin DOMAIN ws THEN ws
  ELSE [ws EXCEPT ![wordId].sightReadViews = @ + 1,
                  ![wordId].sightReadKnown = @ + (IF recognized THEN 1 ELSE 0)]

(* ---------------------------- state ------------------------------------ *)
VARIABLES
  words,        \* the store: word id -> record (db.words of one learner)
  child,        \* the learner profile: quizLength, inputMethod
  pos0,         \* queue positions when the session was opened (observation)
  state,        \* the session's state object (renderDailyQuiz)
  wordDrilled,  \* word.drilled of the session's in-memory Word copies
  ps,           \* state.practiceState, the letter-input state of the test
  tasks,        \* pending continuations, in creation order
  dom,          \* what the quiz container shows and which handlers it holds
  keydown,      \* keydown listeners bound on document (practice-state gens)
  calls,        \* calls and handler outcomes issued by the last step
  exitPoint,    \* what was pending when Exit was clicked (observation)
  overlaps,     \* assessment clicks made while a response was in flight
  sepIn,        \* input sequence of the separator run
  sepOut,       \* its output, once it ran
  ttsIn,        \* a speech request and how each playback stage ends
  ttsOut        \* how the request's promise settled, once it did

vars == <<words, child, pos0, state, wordDrilled, ps, tasks, dom, keydown,
          calls, exitPoint, overlaps, sepIn, sepOut, ttsIn, ttsOut>>

Call(op, w, arg) == [op |-> op, w |-> w, arg |-> arg]
Speak == Call("speak", 0, 0)
B2N(b) == IF b THEN 1 ELSE 0

Task(pc, w) ==
  [pc |-> pc, w |-> w, i |-> 0, gen |-> 0, he |-> FALSE, wm |-> FALSE,
   rec |-> FALSE, live |-> TRUE, mv |-> "none"]

NoState ==
  [quizQueue |-> <<>>, quizLength |-> 0, completedCount |-> 0,
   completedWords |-> <<>>, totalErrors |-> 0, missedWords |-> {},
   phase |-> "none", readingQueue |-> <<>>, readingIndex |-> 0,
   readingResults |-> <<>>, missedReading |-> {}, exiting |-> FALSE]

NoPractice ==
  [gen |-> 0, word |-> 0, input |-> <<>>, targetWord |-> <<>>,
   errorCount |-> 0, processing |-> FALSE]

NoDom ==
  [attached |-> TRUE, screen |-> "none", current |-> 0, letterBtns |-> 0,
   handlers |-> <<>>, hearDisabled |-> FALSE, assessVisible |-> FALSE,
   content |-> "none"]

\* container.innerHTML = ... : every element and handler of the old page goes
Page(screen, content) ==
  [dom EXCEPT !.screen = screen, !.current = 0, !.letterBtns = 0,
              !.handlers = <<>>, !.hearDisabled = FALSE,
              !.assessVisible = FALSE, !.content = content]

\* continuations that hold elements of the replaced page keep running on them
Detach(tks) ==
  [k \in DOMAIN tks |->
     IF tks[k].pc = "H1" THEN [tks[k] EXCEPT !.live = FALSE] ELSE tks[k]]

(* ------------------------- initial states ------------------------------ *)
\* positions 0..n-1 in id order with at most MaxUntaught untaught words, or
\* taught words whose positions start at 1 (the front word was soft-deleted)
InitStores ==
  UNION { { [id \in 1..n |-> NewWord(id - 1, drilled[id])] :
              drilled \in {d \in [1..n -> BOOLEAN] :
                             Cardinality({id \in 1..n : ~d[id]}) <= MaxUntaught} }
          \cup { [id \in 1..n |-> NewWord(id, TRUE)] } :
          n \in 0..MaxWords }

NotSeparated == [done |-> FALSE, queue |-> <<>>]

NoSpeech ==
  [op |-> "none", single |-> FALSE, cached |-> "none",
   neural |-> "unavailable", utterance |-> "end"]

NotSpoken == [done |-> FALSE, settled |-> "pending", log |-> <<>>]

SessionIdle ==
  /\ state = NoState
  /\ ps = NoPractice
  /\ dom = NoDom
  /\ keydown = {}
  /\ calls = <<>>
  /\ exitPoint = [exited |-> FALSE, w |-> 0, pcs |-> {}]
  /\ overlaps = 0

Init ==
  /\ words \in InitStores
  /\ child \in [quizLength : 1..MaxQuizLen,
                inputMethod : {"keyboard", "onscreen", "hybrid"}]
  /\ pos0 = [id \in DOMAIN words |-> words[id].position]
  /\ wordDrilled = [id \in DOMAIN words |-> words[id].drilled]
  /\ tasks = <<Task("start", 0)>>
  /\ SessionIdle
  /\ sepIn = <<>>
  /\ sepOut = NotSeparated
  /\ ttsIn = NoSpeech
  /\ ttsOut = NotSpoken

(* ------------------------ rendering (synchronous) ---------------------- *)
\* mutant: the session-wide error total is not looked at
perfectSpellingAlways(s) == s.totalErrors >= 0

\* "const perfectSpelling = state.totalErrors === 0"
perfectSpelling(s) == s.totalErrors = 0

\* "const perfectReading = state.missedReading.size === 0"
perfectReading(s) == s.missedReading = {}

\* renderFinalCompletion -> renderPerfectSession / renderRegularCompletion:
\* the completion page with its Done button
renderFinalCompletion(s, tks, cls) ==
  /\ state' = s
  /\ dom' = Page("final", IF perfectSpelling(s) /\ perfectReading(s)
                          THEN "perfect" ELSE "regular")
  /\ tasks' = Detach(tks)
  /\ calls' = cls

\* renderReadingCard up to its first await
renderReadingCard(s, tks, cls) ==
  IF s.readingIndex >= Len(s.readingQueue)
  THEN renderFinalCompletion(s, tks, cls)
  ELSE /\ state' = s
       /\ dom' = Page("card", "buttons")
       /\ tasks' = Append(Detach(tks),
                          Task("K1", s.readingQueue[s.readingIndex + 1].id))
       /\ calls' = Append(cls, Speak)

\* the orders readingQueue.sort(() => Math.random() - 0.5) can produce
Shuffles(q) ==
  {r \in [1..Len(q) -> Range(q)] : \A x \in Range(q) : \E i \in 1..Len(q) : r[i] = x}

\* mutant: every queue of two or more words is shuffled
ReadingOrdersShuffleAll(completedWords) ==
  IF Len(completedWords) > 1 THEN Shuffles(completedWords)
  ELSE {completedWords}

\* "For 6 words or fewer, keep same order; otherwise shuffle"
ReadingOrders(completedWords) ==
  IF Len(completedWords) > ShuffleAbove THEN Shuffles(completedWords)
  ELSE {completedWords}

\* renderComplete up to its first await
renderComplete(s, tks, cls) ==
  /\ \E readingQueue \in ReadingOrders(s.completedWords) :
       state' = [s EXCEPT !.phase = "reading",
                          !.readingQueue = readingQueue,
                          !.readingIndex = 0,
                          !.readingResults = <<>>]
  /\ dom' = Page("transition", "none")
  /\ tasks' = Append(Detach(tks), Task("R1", 0))
  /\ calls' = Append(cls, Speak)

\* mutant: the next word is read from the queue front but left there
renderPeeking(s, wd, tks, cls) ==
  IF s.completedCount >= s.quizLength
  THEN renderComplete(s, tks, cls)
  ELSE IF s.quizQueue = <<>>
  THEN /\ state' = s
       /\ dom' = Page("quiz", "none")
       /\ tasks' = Detach(tks)
       /\ calls' = cls
  ELSE LET currentWord == Head(s.quizQueue)
       IN  /\ state' = s
           /\ dom' = [Page("quiz", IF wd[currentWord] THEN "prompt"
                                                       ELSE "teach")
                        EXCEPT !.current = currentWord]
           /\ tasks' = Append(Detach(tks),
                              Task(IF wd[currentWord] THEN "Q1" ELSE "T1",
                                   currentWord))
           /\ calls' = Append(cls, Speak)

\* render + renderQuizWord up to the first await of teachNewWord or
\* renderQuizTest; wd is word.drilled of the in-memory copies
render(s, wd, tks, cls) ==
  IF s.completedCount >= s.quizLength
  THEN renderComplete(s, tks, cls)
  ELSE IF s.quizQueue = <<>>
  THEN \* shift() yields undefined and renderQuizWord throws on word.drilled
       /\ state' = s
       /\ dom' = Page("quiz", "none")
       /\ tasks' = Detach(tks)
       /\ calls' = cls
  ELSE LET currentWord == Head(s.quizQueue)
       IN  /\ state' = [s EXCEPT !.quizQueue = Tail(s.quizQueue)]
           /\ dom' = [Page("quiz", IF wd[currentWord] THEN "prompt"
                                                       ELSE "teach")
                        EXCEPT !.current = currentWord]
           /\ tasks' = Append(Detach(tks),
                              Task(IF wd[currentWord] THEN "Q1" ELSE "T1",
                                   currentWord))
           /\ calls' = Append(cls, Speak)

(* ------------------------------- sync ---------------------------------- *)
\* how a sync call can end: not made (not signed in), resolved, rejected
SyncOutcomes == {"skipped", "ok", "failed"}

\* syncChildBeforeQuiz: the calls it adds and how its own promise settles;
\* a rejected pull is caught and logged
syncChildBeforeQuiz(pull) ==
  IF pull = "failed"
  THEN [settled |-> "resolved",
        log |-> <<Call("pullFailed", 0, 0), Call("console.error", 0, 0)>>]
  ELSE [settled |-> "resolved", log |-> <<>>]

\* mutant: the rejected push is not caught
syncChildAfterQuizUncaught(push) ==
  IF push = "failed"
  THEN [settled |-> "rejected", log |-> <<Call("pushFailed", 0, 0)>>]
  ELSE [settled |-> "resolved", log |-> <<>>]

\* syncChildAfterQuiz: a rejected push is caught and logged
syncChildAfterQuiz(push) ==
  IF push = "failed"
  THEN [settled |-> "resolved",
        log |-> <<Call("pushFailed", 0, 0), Call("console.error", 0, 0)>>]
  ELSE [settled |-> "resolved", log |-> <<>>]

(* --------------------------- session start ----------------------------- *)
\* mutant: the empty queue is not told apart
NoWordsNever(allWords) == Len(allWords) < 0

\* "if (allWords.length === 0)": no words to quiz
NoWords(allWords) == Len(allWords) = 0

\* renderDailyQuiz, resumed when syncChildBeforeQuiz has settled
renderDailyQuiz(k, pull) ==
  /\ tasks[k].pc = "start"
  /\ LET allWords == getWords(words)
         rest == RemoveAt(tasks, k)
         sync == syncChildBeforeQuiz(pull)
     IN  IF sync.settled = "rejected"
         THEN /\ tasks' = rest
              /\ calls' = Append(sync.log, Call("rejected", 0, 0))
              /\ UNCHANGED <<state, wordDrilled, dom>>
         ELSE IF NoWords(allWords)
         THEN /\ dom' = Page("empty", "none")
              /\ tasks' = rest
              /\ calls' = sync.log
              /\ UNCHANGED <<state, wordDrilled>>
         ELSE LET quizQueue ==
                    separateHomophones(
                      SubSeq(allWords, 1, Min(child.quizLength, Len(allWords))))
                  wd == [id \in DOMAIN words |-> words[id].drilled]
              IN  /\ wordDrilled' = wd
                  /\ render([NoState EXCEPT !.quizQueue = quizQueue,
                                            !.quizLength = child.quizLength,
                                            !.phase = "spelling"],
                            wd, rest, sync.log)
  /\ UNCHANGED <<words, child, pos0, ps, keydown, exitPoint, overlaps, sepIn, sepOut, ttsIn, ttsOut>>

\* the Back to Menu button of the "No Words Ready" page
BackToMenu ==
  /\ dom.attached
  /\ dom.screen = "empty"
  /\ dom' = [dom EXCEPT !.attached = FALSE]
  /\ calls' = <<Call("onComplete", 0, 0)>>
  /\ UNCHANGED <<words, child, pos0, state, wordDrilled, ps, tasks, keydown,
                 exitPoint, overlaps, sepIn, sepOut, ttsIn, ttsOut>>

(* ------------------------------ exit ----------------------------------- *)
\* mutant: the exit leaves the key listener of the test bound
ExitQuizKeepsListener ==
  /\ dom.attached
  /\ dom.screen = "quiz"
  /\ state' = [state EXCEPT !.exiting = TRUE]
  /\ keydown' = keydown
  /\ dom' = [dom EXCEPT !.attached = FALSE]
  /\ exitPoint' = [exited |-> TRUE, w |-> dom.current,
                   pcs |-> {tasks[t].pc : t \in DOMAIN tasks}]
  /\ calls' = <<Call("stop", 0, 0), Call("onComplete", 0, 0)>>
  /\ UNCHANGED <<words, child, pos0, wordDrilled, ps, tasks, overlaps, sepIn, sepOut, ttsIn, ttsOut>>

\* click on exit-quiz-btn (spelling page)
ExitQuiz ==
  /\ dom.attached
  /\ dom.screen = "quiz"
  /\ state' = [state EXCEPT !.exiting = TRUE]
  /\ keydown' = keydown \ {ps.gen}
  /\ dom' = [dom EXCEPT !.attached = FALSE]
  /\ exitPoint' = [exited |-> TRUE, w |-> dom.current,
                   pcs |-> {tasks[t].pc : t \in DOMAIN tasks}]
  /\ calls' = <<Call("stop", 0, 0), Call("onComplete", 0, 0)>>
  /\ UNCHANGED <<words, child, pos0, wordDrilled, ps, tasks, overlaps, sepIn, sepOut, ttsIn, ttsOut>>

\* click on exit-reading-btn (reading card)
ExitReading ==
  /\ dom.attached
  /\ dom.screen = "card"
  /\ state' = [state EXCEPT !.exiting = TRUE]
  /\ dom' = [dom EXCEPT !.attached = FALSE]
  /\ exitPoint' = [exited |-> TRUE, w |-> dom.current,
                   pcs |-> {tasks[t].pc : t \in DOMAIN tasks}]
  /\ calls' = <<Call("stop", 0, 0), Call("onComplete", 0, 0)>>
  /\ UNCHANGED <<words, child, pos0, wordDrilled, ps, tasks, keydown,
                 overlaps, sepIn, sepOut, ttsIn, ttsOut>>

(* ------------------- resumption after a speech or delay ---------------- *)
\* mutant: the exit checks after the awaits are missing
NeverExiting == FALSE

\* "if (state.exiting) return;" after an await
Exiting == state.exiting

\* a continuation at "from" resumes, checks the exit flag and runs to the
\* await "to", starting a speech request there when speech is TRUE
Resume(k, from, to, speech) ==
  /\ tasks[k].pc = from
  /\ IF Exiting
     THEN /\ tasks' = RemoveAt(tasks, k)
          /\ calls' = <<>>
     ELSE /\ tasks' = [tasks EXCEPT ![k].pc = to]
          /\ calls' = IF speech THEN <<Speak>> ELSE <<>>
  /\ UNCHANGED <<words, child, pos0, state, wordDrilled, ps, dom, keydown,
                 exitPoint, overlaps, sepIn, sepOut, ttsIn, ttsOut>>

(* ----------------------------- teachNewWord ---------------------------- *)
TeachIntroSpoken(k) == Resume(k, "T1", "T2", FALSE)
TeachIntroPaused(k) == Resume(k, "T2", "T3", TRUE)
TeachWordSpoken(k) == Resume(k, "T3", "T4", FALSE)

\* after sleep(1000): the letter loop starts with letters[0]
TeachWordPaused(k) ==
  /\ Resume(k, "T4", "T5", TRUE)
  /\ ~Exiting => tasks'[k].i = 0

\* one speakLetter of the loop resolved: next letter, or sleep(1000)
TeachLetterSpoken(k) ==
  /\ tasks[k].pc = "T5"
  /\ LET t == tasks[k]
         letters == WordText(t.w)
     IN  IF Exiting
         THEN /\ tasks' = RemoveAt(tasks, k)
              /\ calls' = <<>>
         ELSE IF t.i + 1 < Len(letters)
         THEN /\ tasks' = [tasks EXCEPT ![k].i = t.i + 1]
              /\ calls' = <<Speak>>
         ELSE /\ tasks' = [tasks EXCEPT ![k].pc = "T6"]
              /\ calls' = <<>>
  /\ UNCHANGED <<words, child, pos0, state, wordDrilled, ps, dom, keydown,
                 exitPoint, overlaps, sepIn, sepOut, ttsIn, ttsOut>>

\* Phase 4: renderQuizTest draws the empty boxes, "Spell" is spoken
TeachDone(k) ==
  /\ tasks[k].pc = "T6"
  /\ IF Exiting
     THEN /\ tasks' = RemoveAt(tasks, k)
          /\ calls' = <<>>
          /\ dom' = dom
     ELSE /\ tasks' = [tasks EXCEPT ![k].pc = "Q1"]
          /\ calls' = <<Speak>>
          /\ dom' = [dom EXCEPT !.content = "prompt"]
  /\ UNCHANGED <<words, child, pos0, state, wordDrilled, ps, keydown,
                 exitPoint, overlaps, sepIn, sepOut, ttsIn, ttsOut>>

(* ----------------------------- renderQuizTest -------------------------- *)
TestPromptSpoken(k) == Resume(k, "Q1", "Q2", FALSE)
TestPromptPaused(k) == Resume(k, "Q2", "Q3", TRUE)

\* the word was spoken: practiceState is created and attachQuizListeners runs
TestWordSpoken(k) ==
  /\ tasks[k].pc = "Q3"
  /\ tasks' = RemoveAt(tasks, k)
  /\ calls' = <<>>
  /\ IF Exiting
     THEN UNCHANGED <<ps, dom, keydown>>
     ELSE LET gen == ps.gen + 1
          IN  /\ ps' = [gen |-> gen, word |-> tasks[k].w, input |-> <<>>,
                        targetWord |-> toLowerCase(WordText(tasks[k].w)),
                        errorCount |-> 0, processing |-> FALSE]
              /\ dom' = [dom EXCEPT
                           !.content = "test",
                           !.letterBtns =
                              IF child.inputMethod # "keyboard" THEN gen ELSE 0]
              /\ keydown' = IF child.inputMethod # "onscreen"
                            THEN keydown \cup {gen} ELSE keydown
  /\ UNCHANGED <<words, child, pos0, state, wordDrilled, exitPoint, overlaps, sepIn, sepOut, ttsIn, ttsOut>>

(* ---------------------------- the input arbiter ------------------------ *)
\* mutant: the handlers do not test the processing flag
Unlocked == FALSE

\* "if (practiceState.processing) return;" of the handlers
Locked == ps.processing

\* mutant: a wrong letter is counted and kept in the input as well
handleLetterInputKeepsWrong(letter) ==
  IF Locked
  THEN /\ calls' = <<Call("drop", ps.word, 0)>>
       /\ UNCHANGED <<ps, tasks>>
  ELSE LET currentPos == Len(ps.input)
           inWord == currentPos < Len(ps.targetWord)
       IN  IF inWord /\ letter = ps.targetWord[currentPos + 1]
           THEN /\ ps' = [ps EXCEPT !.processing = TRUE,
                                    !.input = Append(ps.input, letter)]
                /\ tasks' = Append(tasks, [Task("L1", ps.word)
                                             EXCEPT !.gen = ps.gen])
                /\ calls' = <<Call("accept", ps.word, 0)>>
           ELSE /\ ps.errorCount + state.totalErrors < MaxErrors
                /\ ps' = [ps EXCEPT !.errorCount = ps.errorCount + 1,
                                    !.input = Append(ps.input, letter),
                                    !.processing = TRUE]
                /\ tasks' = IF inWord
                            THEN Append(tasks, [Task("E1", ps.word)
                                                  EXCEPT !.gen = ps.gen])
                            ELSE tasks
                /\ calls' = <<Call("reject", ps.word, 0)>>

\* handleLetterInput (with handleError up to its first await) for one event
handleLetterInput(letter) ==
  IF Locked
  THEN /\ calls' = <<Call("drop", ps.word, 0)>>
       /\ UNCHANGED <<ps, tasks>>
  ELSE LET currentPos == Len(ps.input)
           inWord == currentPos < Len(ps.targetWord)
       IN  IF inWord /\ letter = ps.targetWord[currentPos + 1]
           THEN /\ ps' = [ps EXCEPT !.processing = TRUE,
                                    !.input = Append(ps.input, letter)]
                /\ tasks' = Append(tasks, [Task("L1", ps.word)
                                             EXCEPT !.gen = ps.gen])
                /\ calls' = <<Call("accept", ps.word, 0)>>
           ELSE /\ ps.errorCount + state.totalErrors < MaxErrors
                /\ ps' = [ps EXCEPT !.errorCount = ps.errorCount + 1,
                                    !.processing = TRUE]
                /\ tasks' = IF inWord
                            THEN Append(tasks, [Task("E1", ps.word)
                                                  EXCEPT !.gen = ps.gen])
                            ELSE tasks
                /\ calls' = <<Call("reject", ps.word, 0)>>

\* keydown on document reaching the key handler of the current test
KeyDown(letter) ==
  /\ ps.gen # 0
  /\ ps.gen \in keydown
  /\ handleLetterInput(LowerLetter(letter))
  /\ UNCHANGED <<words, child, pos0, state, wordDrilled, dom, keydown,
                 exitPoint, overlaps, sepIn, sepOut, ttsIn, ttsOut>>

\* click on an on-screen letter button
LetterClick(letter) ==
  /\ dom.attached
  /\ ps.gen # 0
  /\ dom.letterBtns = ps.gen
  /\ handleLetterInput(letter)
  /\ UNCHANGED <<words, child, pos0, state, wordDrilled, dom, keydown,
                 exitPoint, overlaps, sepIn, sepOut, ttsIn, ttsOut>>

\* mutant: the lock is released after the last letter as well
LetterSettledReleasing(k) ==
  /\ tasks[k].pc = "L1"
  /\ tasks[k].gen = ps.gen
  /\ calls' = <<Speak>>
  /\ IF ps.input = ps.targetWord
     THEN /\ tasks' = [tasks EXCEPT ![k].pc = "L2"]
          /\ ps' = [ps EXCEPT !.processing = FALSE]
     ELSE /\ tasks' = RemoveAt(tasks, k)
          /\ ps' = [ps EXCEPT !.processing = FALSE]
  /\ UNCHANGED <<words, child, pos0, state, wordDrilled, dom, keydown,
                 exitPoint, overlaps, sepIn, sepOut, ttsIn, ttsOut>>

\* correct letter, after sleep(300): speakLetter is called; for the last
\* letter it is awaited (L2), otherwise only a catch handler that logs is
\* attached to it and the lock is released in the same run
LetterSettled(k) ==
  /\ tasks[k].pc = "L1"
  /\ tasks[k].gen = ps.gen
  /\ calls' = <<Speak>>
  /\ IF ps.input = ps.targetWord
     THEN /\ tasks' = [tasks EXCEPT ![k].pc = "L2"]
          /\ ps' = ps
     ELSE /\ tasks' = RemoveAt(tasks, k)
          /\ ps' = [ps EXCEPT !.processing = FALSE]
  /\ UNCHANGED <<words, child, pos0, state, wordDrilled, dom, keydown,
                 exitPoint, overlaps, sepIn, sepOut, ttsIn, ttsOut>>

\* handleError: sleep(300) over, the correct letter is spoken
ErrorShown(k) ==
  /\ tasks[k].pc = "E1"
  /\ tasks' = [tasks EXCEPT ![k].pc = "E2"]
  /\ calls' = <<Speak>>
  /\ UNCHANGED <<words, child, pos0, state, wordDrilled, ps, dom, keydown,
                 exitPoint, overlaps, sepIn, sepOut, ttsIn, ttsOut>>

\* handleError: the letter was spoken, sleep(1500)
ErrorSpoken(k) ==
  /\ tasks[k].pc = "E2"
  /\ tasks' = [tasks EXCEPT ![k].pc = "E3"]
  /\ calls' = <<>>
  /\ UNCHANGED <<words, child, pos0, state, wordDrilled, ps, dom, keydown,
                 exitPoint, overlaps, sepIn, sepOut, ttsIn, ttsOut>>

\* mutant: the correction also starts the error count of the word afresh
ErrorClearedResetsCount(k) ==
  /\ tasks[k].pc = "E3"
  /\ tasks[k].gen = ps.gen
  /\ tasks' = RemoveAt(tasks, k)
  /\ ps' = [ps EXCEPT !.input = <<>>, !.processing = FALSE,
                      !.errorCount = 0]
  /\ calls' = <<>>
  /\ UNCHANGED <<words, child, pos0, state, wordDrilled, dom, keydown,
                 exitPoint, overlaps, sepIn, sepOut, ttsIn, ttsOut>>

\* handleError: boxes cleared, input reset, lock released
ErrorCleared(k) ==
  /\ tasks[k].pc = "E3"
  /\ tasks[k].gen = ps.gen
  /\ tasks' = RemoveAt(tasks, k)
  /\ ps' = [ps EXCEPT !.input = <<>>, !.processing = FALSE]
  /\ calls' = <<>>
  /\ UNCHANGED <<words, child, pos0, state, wordDrilled, dom, keydown,
                 exitPoint, overlaps, sepIn, sepOut, ttsIn, ttsOut>>

(* ---------------------------- completeQuizWord ------------------------- *)
\* mutant: the attempt of a taught word is always recorded as a success
LastLetterSpokenAsSuccess(k) ==
  /\ tasks[k].pc = "L2"
  /\ LET w == tasks[k].w
         hadErrors == ps.errorCount > 0
         wasPreviouslyMissed == w \in state.missedWords
         t == [tasks[k] EXCEPT !.he = hadErrors, !.wm = wasPreviouslyMissed]
     IN  /\ keydown' = keydown \ {tasks[k].gen}
         /\ IF ~wordDrilled[w]
            THEN /\ tasks' = [tasks EXCEPT ![k] = [t EXCEPT !.pc = "C1"]]
                 /\ calls' = <<Call("markWordDrilled", w, 0)>>
            ELSE /\ tasks' = [tasks EXCEPT ![k] = [t EXCEPT !.pc = "C2"]]
                 /\ calls' = <<Call("recordAttempt", w, 1)>>
  /\ UNCHANGED <<words, child, pos0, state, wordDrilled, ps, dom,
                 exitPoint, overlaps, sepIn, sepOut, ttsIn, ttsOut>>

\* the last letter was spoken: the key listener is removed and
\* completeQuizWord runs to its first store call
LastLetterSpoken(k) ==
  /\ tasks[k].pc = "L2"
  /\ LET w == tasks[k].w
         hadErrors == ps.errorCount > 0
         wasPreviouslyMissed == w \in state.missedWords
         t == [tasks[k] EXCEPT !.he = hadErrors, !.wm = wasPreviouslyMissed]
     IN  /\ keydown' = keydown \ {tasks[k].gen}
         /\ IF ~wordDrilled[w]
            THEN /\ tasks' = [tasks EXCEPT ![k] = [t EXCEPT !.pc = "C1"]]
                 /\ calls' = <<Call("markWordDrilled", w, 0)>>
            ELSE /\ tasks' = [tasks EXCEPT ![k] = [t EXCEPT !.pc = "C2"]]
                 /\ calls' = <<Call("recordAttempt", w, B2N(~hadErrors))>>
  /\ UNCHANGED <<words, child, pos0, state, wordDrilled, ps, dom,
                 exitPoint, overlaps, sepIn, sepOut, ttsIn, ttsOut>>

\* mutant: the in-memory word is not flagged after the store write
DrilledMarkedForgetting(k) ==
  /\ tasks[k].pc = "C1"
  /\ LET w == tasks[k].w
     IN  /\ words' = markWordDrilled(words, w)
         /\ wordDrilled' = wordDrilled
         /\ tasks' = [tasks EXCEPT ![k].pc = "C2"]
         /\ calls' = <<Call("recordAttempt", w, B2N(~tasks[k].he))>>
  /\ UNCHANGED <<child, pos0, state, ps, dom, keydown, exitPoint, overlaps, sepIn, sepOut, ttsIn, ttsOut>>

\* markWordDrilled resolved; recordAttempt is called
DrilledMarked(k) ==
  /\ tasks[k].pc = "C1"
  /\ LET w == tasks[k].w
     IN  /\ words' = markWordDrilled(words, w)
         /\ wordDrilled' = [wordDrilled EXCEPT ![w] = TRUE]
         /\ tasks' = [tasks EXCEPT ![k].pc = "C2"]
         /\ calls' = <<Call("recordAttempt", w, B2N(~tasks[k].he))>>
  /\ UNCHANGED <<child, pos0, state, ps, dom, keydown, exitPoint, overlaps, sepIn, sepOut, ttsIn, ttsOut>>

\* mutant: the feedback leaves the letter buttons of the test on the page
AttemptRecordedKeepsButtons(k) ==
  /\ tasks[k].pc = "C2"
  /\ LET w == tasks[k].w
     IN  /\ words' = recordAttempt(words, w, ~tasks[k].he, 0)
         /\ state' = IF tasks[k].he
                     THEN [state EXCEPT !.missedWords = @ \cup {w}]
                     ELSE state
         /\ dom' = IF dom.screen = "quiz"
                   THEN [dom EXCEPT !.content = "feedback"]
                   ELSE dom
         /\ tasks' = [tasks EXCEPT ![k].pc = "C3"]
         /\ calls' = <<>>
  /\ UNCHANGED <<child, pos0, wordDrilled, ps, keydown, exitPoint, overlaps, sepIn, sepOut, ttsIn, ttsOut>>

\* recordAttempt resolved; missed-set bookkeeping, feedback shown, sleep(1500)
AttemptRecorded(k) ==
  /\ tasks[k].pc = "C2"
  /\ LET w == tasks[k].w
     IN  /\ words' = recordAttempt(words, w, ~tasks[k].he, 0)
         /\ state' = IF tasks[k].he
                     THEN [state EXCEPT !.missedWords = @ \cup {w}]
                     ELSE state
         /\ dom' = IF dom.screen = "quiz"
                   THEN [dom EXCEPT !.content = "feedback", !.letterBtns = 0]
                   ELSE dom
         /\ tasks' = [tasks EXCEPT ![k].pc = "C3"]
         /\ calls' = <<>>
  /\ UNCHANGED <<child, pos0, wordDrilled, ps, keydown, exitPoint, overlaps, sepIn, sepOut, ttsIn, ttsOut>>

\* markWordDrilled rejects: completeQuizWord has no handler, the rejection
\* leaves handleLetterInput too and nothing of the chain runs again
DrilledMarkFailed(k) ==
  /\ tasks[k].pc = "C1"
  /\ tasks' = RemoveAt(tasks, k)
  /\ calls' = <<Call("rejected", tasks[k].w, 0)>>
  /\ UNCHANGED <<words, child, pos0, state, wordDrilled, ps, dom, keydown,
                 exitPoint, overlaps, sepIn, sepOut, ttsIn, ttsOut>>

\* recordAttempt rejects: likewise
AttemptRecordFailed(k) ==
  /\ tasks[k].pc = "C2"
  /\ tasks' = RemoveAt(tasks, k)
  /\ calls' = <<Call("rejected", tasks[k].w, 0)>>
  /\ UNCHANGED <<words, child, pos0, state, wordDrilled, ps, dom, keydown,
                 exitPoint, overlaps, sepIn, sepOut, ttsIn, ttsOut>>

\* mutant: the failed word is put back at the front, without the swap
RequeueFront(quizQueue, word) == <<word>> \o quizQueue

\* "Swap: shift next word, unshift failed word, then unshift next word"
Requeue(quizQueue, word) ==
  IF quizQueue = <<>> THEN <<word>>
  ELSE <<Head(quizQueue), word>> \o Tail(quizQueue)

\* mutant: a word completed with errors is counted as mastered too
OutcomeCountAll(s, t, errorCount) ==
  LET s1 == [s EXCEPT !.completedCount = s.completedCount + 1,
                      !.completedWords =
                         Append(s.completedWords,
                                [id |-> t.w, firstTry |-> ~t.wm])]
  IN  IF errorCount > 0
      THEN [s1 EXCEPT !.totalErrors = s.totalErrors + errorCount]
      ELSE s1

\* the outcome bookkeeping of completeQuizWord after sleep(1500)
Outcome(s, t, errorCount) ==
  LET s1 == IF t.he
            THEN [s EXCEPT !.quizQueue = Requeue(s.quizQueue, t.w)]
            ELSE [s EXCEPT !.completedCount = s.completedCount + 1,
                           !.completedWords =
                              Append(s.completedWords,
                                     [id |-> t.w, firstTry |-> ~t.wm])]
  IN  IF errorCount > 0
      THEN [s1 EXCEPT !.totalErrors = s.totalErrors + errorCount]
      ELSE s1

\* mutant: the queue position is written as soon as a word is mastered
WordCompletedEager(k) ==
  /\ tasks[k].pc = "C3"
  /\ words' = IF tasks[k].he THEN words
              ELSE moveWordToBack(words, tasks[k].w)
  /\ render(Outcome(state, tasks[k], ps.errorCount), wordDrilled,
            RemoveAt(tasks, k),
            IF tasks[k].he THEN <<>>
            ELSE <<Call("moveWordToBack", tasks[k].w, 0)>>)
  /\ UNCHANGED <<child, pos0, wordDrilled, ps, keydown, exitPoint, overlaps,
                 sepIn, sepOut, ttsIn, ttsOut>>

\* the feedback pause is over: bookkeeping, then render() shows the next
\* word or the transition to reading
WordCompleted(k) ==
  /\ tasks[k].pc = "C3"
  /\ render(Outcome(state, tasks[k], ps.errorCount), wordDrilled,
            RemoveAt(tasks, k), <<>>)
  /\ UNCHANGED <<words, child, pos0, wordDrilled, ps, keydown, exitPoint, overlaps, sepIn, sepOut, ttsIn, ttsOut>>

(* ------------------------------ reading phase -------------------------- *)
TransitionSpoken(k) == Resume(k, "R1", "R2", FALSE)
TransitionPaused(k) == Resume(k, "R2", "R3", TRUE)
ReadPromptSpoken(k) == Resume(k, "R3", "R4", FALSE)

\* renderComplete's last sleep is over: the first reading card
ReadingStarts(k) ==
  /\ tasks[k].pc = "R4"
  /\ IF Exiting
     THEN /\ tasks' = RemoveAt(tasks, k)
          /\ calls' = <<>>
          /\ UNCHANGED <<state, dom>>
     ELSE renderReadingCard(state, RemoveAt(tasks, k), <<>>)
  /\ UNCHANGED <<words, child, pos0, wordDrilled, ps, keydown, exitPoint, overlaps, sepIn, sepOut, ttsIn, ttsOut>>

\* the card's instruction was spoken: the hear / got-it / practice-more
\* handlers are added to the buttons the container holds now
CardPromptSpoken(k) ==
  /\ tasks[k].pc = "K1"
  /\ tasks' = RemoveAt(tasks, k)
  /\ calls' = <<>>
  /\ dom' = IF ~Exiting /\ dom.screen = "card" /\ dom.content = "buttons"
            THEN [dom EXCEPT !.handlers = Append(dom.handlers, tasks[k].w)]
            ELSE dom
  /\ UNCHANGED <<words, child, pos0, state, wordDrilled, ps, keydown,
                 exitPoint, overlaps, sepIn, sepOut, ttsIn, ttsOut>>

\* mutant: the assessment buttons are shown as soon as the button is clicked
HearAnswerShowsButtons ==
  /\ dom.attached
  /\ dom.screen = "card"
  /\ dom.content = "buttons"
  /\ dom.handlers # <<>>
  /\ ~dom.hearDisabled
  /\ ~dom.assessVisible
  /\ dom' = [dom EXCEPT !.hearDisabled = TRUE, !.assessVisible = TRUE]
  /\ tasks' = Append(tasks, Task("H1", dom.handlers[1]))
  /\ calls' = <<Speak>>
  /\ UNCHANGED <<words, child, pos0, state, wordDrilled, ps, keydown,
                 exitPoint, overlaps, sepIn, sepOut, ttsIn, ttsOut>>

\* click on hear-answer-btn
HearAnswer ==
  /\ dom.attached
  /\ dom.screen = "card"
  /\ dom.content = "buttons"
  /\ dom.handlers # <<>>
  /\ ~dom.hearDisabled
  /\ ~dom.assessVisible
  /\ dom' = [dom EXCEPT !.hearDisabled = TRUE]
  /\ tasks' = Append(tasks, Task("H1", dom.handlers[1]))
  /\ calls' = <<Speak>>
  /\ UNCHANGED <<words, child, pos0, state, wordDrilled, ps, keydown,
                 exitPoint, overlaps, sepIn, sepOut, ttsIn, ttsOut>>

\* the answer was spoken: the assessment buttons are shown
AnswerSpoken(k) ==
  /\ tasks[k].pc = "H1"
  /\ IF Exiting
     THEN /\ tasks' = RemoveAt(tasks, k)
          /\ calls' = <<>>
          /\ dom' = dom
     ELSE /\ tasks' = [tasks EXCEPT ![k].pc = "H2"]
          /\ calls' = <<Speak>>
          /\ dom' = IF tasks[k].live
                    THEN [dom EXCEPT !.assessVisible = TRUE]
                    ELSE dom
  /\ UNCHANGED <<words, child, pos0, state, wordDrilled, ps, keydown,
                 exitPoint, overlaps, sepIn, sepOut, ttsIn, ttsOut>>

\* "Did you get it?" was spoken
AskedGotIt(k) ==
  /\ tasks[k].pc = "H2"
  /\ tasks' = RemoveAt(tasks, k)
  /\ calls' = <<>>
  /\ UNCHANGED <<words, child, pos0, state, wordDrilled, ps, dom, keydown,
                 exitPoint, overlaps, sepIn, sepOut, ttsIn, ttsOut>>

\* "practice more" answers given or pending in this session
ReadMisses ==
  (Len(state.readingQueue) - Len(state.completedWords))
  + Cardinality({k \in DOMAIN tasks :
                   tasks[k].pc \in {"S1", "S2"} /\ ~tasks[k].rec})

\* handleReadingResponse calls in flight
Responses == Cardinality({k \in DOMAIN tasks : tasks[k].pc \in {"S1", "S2"}})

\* click on got-it-btn (recognized) or practice-more-btn: every handler the
\* button holds calls handleReadingResponse, which calls recordSightRead
Assess(recognized) ==
  /\ dom.attached
  /\ dom.screen = "card"
  /\ dom.content = "buttons"
  /\ dom.assessVisible
  /\ Responses > 0 =>
       overlaps < MaxOverlap /\ state.quizLength <= MaxOverlapQuiz
  /\ overlaps' = IF Responses > 0 THEN overlaps + 1 ELSE overlaps
  /\ recognized \/ ReadMisses + Len(dom.handlers) <= MaxReadMiss
  /\ tasks' = tasks \o [h \in DOMAIN dom.handlers |->
                          [Task("S1", dom.handlers[h])
                             EXCEPT !.rec = recognized]]
  /\ calls' = [h \in DOMAIN dom.handlers |->
                 Call("recordSightRead", dom.handlers[h], B2N(recognized))]
  /\ UNCHANGED <<words, child, pos0, state, wordDrilled, ps, dom, keydown,
                 exitPoint, sepIn, sepOut, ttsIn, ttsOut>>

\* recordSightRead resolved: feedback replaces the card's content, sleep(1200)
SightReadRecorded(k) ==
  /\ tasks[k].pc = "S1"
  /\ words' = recordSightRead(words, tasks[k].w, tasks[k].rec)
  /\ calls' = <<>>
  /\ IF dom.screen = "card"
     THEN /\ dom' = [dom EXCEPT !.content = "feedback"]
          /\ tasks' = [tasks EXCEPT ![k].pc = "S2"]
     ELSE \* no #reading-content on the page: the handler throws
          /\ dom' = dom
          /\ tasks' = RemoveAt(tasks, k)
  /\ UNCHANGED <<child, pos0, state, wordDrilled, ps, keydown, exitPoint, overlaps, sepIn, sepOut, ttsIn, ttsOut>>

\* recordSightRead rejects: handleReadingResponse and the click handler that
\* awaits it end with the rejection, the card stays as it is
SightReadFailed(k) ==
  /\ tasks[k].pc = "S1"
  /\ tasks' = RemoveAt(tasks, k)
  /\ calls' = <<Call("rejected", tasks[k].w, 0)>>
  /\ UNCHANGED <<words, child, pos0, state, wordDrilled, ps, dom, keydown,
                 exitPoint, overlaps, sepIn, sepOut, ttsIn, ttsOut>>

\* the bookkeeping of handleReadingResponse after sleep(1200)
ReadingOutcome(s, w, recognized) ==
  IF recognized
  THEN [s EXCEPT !.readingResults =
                    Append(s.readingResults, [word |-> w, recognized |-> TRUE]),
                 !.readingIndex = s.readingIndex + 1]
  ELSE LET currentIdx == s.readingIndex
           insertIdx == Min(currentIdx + 2, Len(s.readingQueue))
           currentWord == CHOOSE c \in Range(s.completedWords) : c.id = w
       IN  [s EXCEPT !.missedReading = @ \cup {WordText(w)},
                     !.readingQueue = SpliceIn(s.readingQueue, insertIdx,
                                               currentWord),
                     !.readingIndex = s.readingIndex + 1]

\* the feedback pause is over: bookkeeping, then the next card or completion
ResponseHandled(k) ==
  /\ tasks[k].pc = "S2"
  /\ renderReadingCard(ReadingOutcome(state, tasks[k].w, tasks[k].rec),
                       RemoveAt(tasks, k), <<>>)
  /\ UNCHANGED <<words, child, pos0, wordDrilled, ps, keydown, exitPoint, overlaps, sepIn, sepOut, ttsIn, ttsOut>>

(* --------------------------- final reordering -------------------------- *)
\* mutant: the reading result is not looked at
FinalMoveSpellingOnly(s, completedWord) ==
  IF completedWord.id \in s.missedWords \/ ~completedWord.firstTry
  THEN "moveWordToPosition"
  ELSE "moveWordToBack"

\* the branch finalizeQueuePositions takes for one completed word
FinalMove(s, completedWord) ==
  LET wasMissedSpelling == completedWord.id \in s.missedWords
      wasMissedReading == WordText(completedWord.id) \in s.missedReading
  IN  IF wasMissedSpelling \/ wasMissedReading THEN "moveWordToPosition"
      ELSE IF ~completedWord.firstTry THEN "moveWordToPosition"
      ELSE "moveWordToBack"

\* mutant: the call also depends on the session-wide error total
MoveCallByErrorTotal(s, completedWord) ==
  LET mv == IF s.totalErrors > 0 THEN "moveWordToPosition"
            ELSE FinalMove(s, completedWord)
  IN  Call(mv, completedWord.id,
           IF mv = "moveWordToPosition" THEN s.quizLength ELSE 0)

\* the store call finalizeQueuePositions makes for one completed word
MoveCall(s, completedWord) ==
  LET mv == FinalMove(s, completedWord)
  IN  Call(mv, completedWord.id,
           IF mv = "moveWordToPosition" THEN s.quizLength ELSE 0)

ApplyMove(ws, s, t) ==
  IF t.mv = "moveWordToPosition"
  THEN moveWordToPosition(ws, t.w, s.quizLength)
  ELSE moveWordToBack(ws, t.w)

Finalizers == {k \in DOMAIN tasks : tasks[k].pc \in {"F", "Y"}}

\* click on done-btn: finalizeQueuePositions starts with the first word
Done ==
  /\ dom.attached
  /\ dom.screen = "final"
  /\ Cardinality(Finalizers) < MaxDone
  /\ IF state.completedWords = <<>>
     THEN /\ tasks' = Append(tasks, Task("Y", 0))
          /\ calls' = <<>>
     ELSE LET cw == state.completedWords[1]
          IN  /\ tasks' = Append(tasks, [Task("F", cw.id) EXCEPT
                                           !.i = 1,
                                           !.mv = FinalMove(state, cw)])
              /\ calls' = <<MoveCall(state, cw)>>
  /\ UNCHANGED <<words, child, pos0, state, wordDrilled, ps, dom, keydown,
                 exitPoint, overlaps, sepIn, sepOut, ttsIn, ttsOut>>

\* one move of the loop resolved: the next word's move is called, or the
\* loop is over and syncChildAfterQuiz is awaited; it pushes to the cloud
\* only when googleSync.isSignedIn() (signedIn)
MoveDone(k, signedIn) ==
  /\ tasks[k].pc = "F"
  /\ words' = ApplyMove(words, state, tasks[k])
  /\ LET i == tasks[k].i
     IN  IF i < Len(state.completedWords)
         THEN LET cw == state.completedWords[i + 1]
              IN  /\ tasks' = [tasks EXCEPT ![k].i = i + 1, ![k].w = cw.id,
                                            ![k].mv = FinalMove(state, cw)]
                  /\ calls' = <<MoveCall(state, cw)>>
                  /\ ~signedIn
         ELSE /\ tasks' = [tasks EXCEPT
                             ![k].pc = "Y",
                             ![k].mv = IF signedIn THEN "syncChildToCloud"
                                                   ELSE "none"]
              /\ calls' = IF signedIn
                          THEN <<Call("syncChildToCloud", 0, 0)>>
                          ELSE <<>>
  /\ UNCHANGED <<child, pos0, state, wordDrilled, ps, dom, keydown, exitPoint,
                 overlaps, sepIn, sepOut, ttsIn, ttsOut>>

\* syncChildAfterQuiz settled (push is how its cloud call ended):
\* onComplete() leaves the quiz
SyncSettled(k, push) ==
  /\ tasks[k].pc = "Y"
  /\ push = "skipped" <=> tasks[k].mv # "syncChildToCloud"
  /\ tasks' = RemoveAt(tasks, k)
  /\ LET sync == syncChildAfterQuiz(push)
     IN  IF sync.settled = "rejected"
         THEN /\ calls' = Append(sync.log, Call("rejected", 0, 0))
              /\ dom' = dom
         ELSE /\ calls' = Append(sync.log, Call("onComplete", 0, 0))
              /\ dom' = [dom EXCEPT !.attached = FALSE]
  /\ UNCHANGED <<words, child, pos0, state, wordDrilled, ps, keydown,
                 exitPoint, overlaps, sepIn, sepOut, ttsIn, ttsOut>>

(* ------------------------------ the session ---------------------------- *)
Keys == Letters \cup {"T"}

Next ==
  \/ \E k \in DOMAIN tasks, pull \in SyncOutcomes : renderDailyQuiz(k, pull)
  \/ BackToMenu
  \/ ExitQuiz
  \/ ExitReading
  \/ \E k \in DOMAIN tasks : TeachIntroSpoken(k)
  \/ \E k \in DOMAIN tasks : TeachIntroPaused(k)
  \/ \E k \in DOMAIN tasks : TeachWordSpoken(k)
  \/ \E k \in DOMAIN tasks : TeachWordPaused(k)
  \/ \E k \in DOMAIN tasks : TeachLetterSpoken(k)
  \/ \E k \in DOMAIN tasks : TeachDone(k)
  \/ \E k \in DOMAIN tasks : TestPromptSpoken(k)
  \/ \E k \in DOMAIN tasks : TestPromptPaused(k)
  \/ \E k \in DOMAIN tasks : TestWordSpoken(k)
  \/ \E letter \in Keys : KeyDown(letter)
  \/ \E letter \in Letters : LetterClick(letter)
  \/ \E k \in DOMAIN tasks : LetterSettled(k)
  \/ \E k \in DOMAIN tasks : ErrorShown(k)
  \/ \E k \in DOMAIN tasks : ErrorSpoken(k)
  \/ \E k \in DOMAIN tasks : ErrorCleared(k)
  \/ \E k \in DOMAIN tasks : LastLetterSpoken(k)
  \/ \E k \in DOMAIN tasks : DrilledMarked(k)
  \/ \E k \in DOMAIN tasks : AttemptRecorded(k)
  \/ \E k \in DOMAIN tasks : DrilledMarkFailed(k)
  \/ \E k \in DOMAIN tasks : AttemptRecordFailed(k)
  \/ \E k \in DOMAIN tasks : WordCompleted(k)
  \/ \E k \in DOMAIN tasks : TransitionSpoken(k)
  \/ \E k \in DOMAIN tasks : TransitionPaused(k)
  \/ \E k \in DOMAIN tasks : ReadPromptSpoken(k)
  \/ \E k \in DOMAIN tasks : ReadingStarts(k)
  \/ \E k \in DOMAIN tasks : CardPromptSpoken(k)
  \/ HearAnswer
  \/ \E k \in DOMAIN tasks : AnswerSpoken(k)
  \/ \E k \in DOMAIN tasks : AskedGotIt(k)
  \/ \E recognized \in BOOLEAN : Assess(recognized)
  \/ \E k \in DOMAIN tasks : SightReadRecorded(k)
  \/ \E k \in DOMAIN tasks : SightReadFailed(k)
  \/ \E k \in DOMAIN tasks : ResponseHandled(k)
  \/ Done
  \/ \E k \in DOMAIN tasks, signedIn \in BOOLEAN : MoveDone(k, signedIn)
  \/ \E k \in DOMAIN tasks, push \in SyncOutcomes : SyncSettled(k, push)

Spec == Init /\ [][Next]_vars

(* ------------------- the separator as a pure function ------------------ *)
SepVocabulary == 1..Len(Texts)

\* sequences of distinct words, at most MaxSepLen long
SepInputs ==
  UNION { {q \in [1..n -> SepVocabulary] :
             \A i, j \in 1..n : i # j => q[i] # q[j]} : n \in 0..MaxSepLen }

InitSep ==
  /\ sepIn \in SepInputs
  /\ sepOut = NotSeparated
  /\ words = <<>>
  /\ child = [quizLength |-> 1, inputMethod |-> "keyboard"]
  /\ pos0 = <<>>
  /\ wordDrilled = <<>>
  /\ tasks = <<>>
  /\ SessionIdle
  /\ ttsIn = NoSpeech
  /\ ttsOut = NotSpoken

\* quizQueue = separateHomophones(quizQueue)
Separate ==
  /\ ~sepOut.done
  /\ sepOut' = [done |-> TRUE, queue |-> separateHomophones(sepIn)]
  /\ UNCHANGED <<words, child, pos0, state, wordDrilled, ps, tasks, dom,
                 keydown, calls, exitPoint, overlaps, sepIn, ttsIn, ttsOut>>

NextSep == Separate

SpecSep == InitSep /\ [][NextSep]_vars

(* ------------------ the store under its own operations ---------------- *)
\* texts given to createWord and importCommonWords
StoreTexts == {<<"t", "o">>, <<"T", "o">>}

StoredWord(text, pos) == [text |-> text] @@ NewWord(pos, FALSE)

\* createWord: the live words move back by one, the new word gets position 0
createWord(ws, text) ==
  Append([j \in DOMAIN ws |->
            IF j \in Live(ws) THEN [ws[j] EXCEPT !.position = @ + 1]
            ELSE ws[j]],
         StoredWord(text, 0))

\* deleteWord: soft delete, positions are left as they are
deleteWord(ws, wordId) ==
  IF wordId \notin DOMAIN ws THEN ws
  ELSE [ws EXCEPT ![wordId].deleted = TRUE]

\* importCommonWords: texts the learner does not have yet go to the back
importCommonWords(ws, wordList) ==
  LET existingWordTexts == {toLowerCase(ws[j].text) : j \in Live(ws)}
      IsNew(t) == toLowerCase(t) \notin existingWordTexts
      newWords == SelectSeq(wordList, IsNew)
      maxPosition == IF Live(ws) = {} THEN -1
                     ELSE SetMax({ws[j].position : j \in Live(ws)})
  IN  IF newWords = <<>> THEN ws
      ELSE ws \o [i \in 1..Len(newWords) |->
                    StoredWord(toLowerCase(newWords[i]), maxPosition + i)]

\* sortWordQueue: words with failures first, most failures first (stable),
\* then the others in their order; positions 0..n-1
sortWordQueue(ws) ==
  LET failureCount(j) == ws[j].attempts - ws[j].successes
      Before(j, id) ==
        IF failureCount(id) > 0
        THEN \/ failureCount(j) > failureCount(id)
             \/ failureCount(j) = failureCount(id) /\ Rank(ws, j) < Rank(ws, id)
        ELSE \/ failureCount(j) > 0
             \/ Rank(ws, j) < Rank(ws, id)
  IN  [id \in DOMAIN ws |->
         IF id \in Live(ws)
         THEN [ws[id] EXCEPT !.position =
                 Cardinality({j \in Live(ws) \ {id} : Before(j, id)})]
         ELSE ws[id]]

\* ids the operations are called with: the stored ones and one never stored
StoreIds == 1..(Len(words) + 1)

StoreSize(ws) == Len(ws)

InitStore ==
  /\ words = <<>>
  /\ child = [quizLength |-> 1, inputMethod |-> "keyboard"]
  /\ pos0 = <<>>
  /\ wordDrilled = <<>>
  /\ tasks = <<>>
  /\ SessionIdle
  /\ sepIn = <<>>
  /\ sepOut = NotSeparated
  /\ ttsIn = NoSpeech
  /\ ttsOut = NotSpoken

\* one completed store operation; calls names it
StoreStep(ws, op) ==
  /\ words' = ws
  /\ calls' = <<Call(op, 0, 0)>>
  /\ UNCHANGED <<child, pos0, state, wordDrilled, ps, tasks, dom, keydown,
                 exitPoint, overlaps, sepIn, sepOut, ttsIn, ttsOut>>

CreateWord(text) ==
  /\ StoreSize(words) < MaxStoreWords
  /\ StoreStep(createWord(words, text), "createWord")

ImportCommonWords(wordList) ==
  /\ StoreSize(importCommonWords(words, wordList)) <= MaxStoreWords
  /\ StoreStep(importCommonWords(words, wordList),
               "importCommonWords")

SortWordQueue ==
  StoreStep(sortWordQueue(words), "sortWordQueue")

DeleteWord(wordId) ==
  /\ Cardinality(DOMAIN words \ Live(words)) < MaxStoreDeleted
  /\ StoreStep(deleteWord(words, wordId), "deleteWord")

MoveWordToBack(wordId) ==
  StoreStep(moveWordToBack(words, wordId), "moveWordToBack")

MoveWordToPosition(wordId, target) ==
  StoreStep(moveWordToPosition(words, wordId, target), "moveWordToPosition")

\* failed attempts recorded in the store
StoreFailures(ws) ==
  Cardinality({<<j, a>> \in (DOMAIN ws) \X (1..MaxStoreFailed) :
                 a <= ws[j].attempts - ws[j].successes})

\* a spelling attempt that had errors
RecordAttempt(wordId) ==
  /\ StoreFailures(words) < MaxStoreFailed
  /\ StoreStep(recordAttempt(words, wordId, FALSE, 0),
               "recordAttempt")

ImportLists ==
  UNION {[1..n -> StoreTexts] : n \in 1..2}

NextStore ==
  \/ \E text \in StoreTexts : CreateWord(text)
  \/ \E wordList \in ImportLists : ImportCommonWords(wordList)
  \/ SortWordQueue
  \/ \E wordId \in StoreIds : DeleteWord(wordId)
  \/ \E wordId \in StoreIds : MoveWordToBack(wordId)
  \/ \E wordId \in StoreIds, target \in -1..(MaxStoreWords + 1) :
       MoveWordToPosition(wordId, target)
  \/ \E wordId \in StoreIds : RecordAttempt(wordId)

SpecStore == InitStore /\ [][NextStore]_vars

(* --------------------- the speech service (tts) ------------------------ *)
\* One request: the method called, whether the text is a single letter, how
\* the cached audio ends (none cached, played to the end, error event,
\* play() rejected), how the neural voice ends (unavailable, spoke, failed)
\* and which event the Web Speech utterance fires.
SpeechOps == {"speakPrompt", "speakWord", "speakLetter"}
CachedOutcomes == {"none", "ended", "error", "playRejected"}
NeuralOutcomes == {"unavailable", "ok", "failed"}
UtteranceEvents == {"end", "error"}

Settled(how, log) == [settled |-> how, log |-> log]

\* mutant: the error event of the utterance rejects the promise
SpeakUtteranceRejecting(utterance, log) ==
  IF utterance = "end" THEN Settled("resolved", log)
  ELSE Settled("rejected", Append(log, "console.error"))

\* _speakUtterance: onend resolves, onerror logs and resolves anyway
SpeakUtterance(utterance, log) ==
  IF utterance = "end" THEN Settled("resolved", log)
  ELSE Settled("resolved", Append(log, "console.error"))

\* speak: the neural voice for words when available, else Web Speech
speak(single, neural, utterance, log) ==
  IF ~single /\ neural # "unavailable"
  THEN IF neural = "ok" THEN Settled("resolved", log)
       ELSE SpeakUtterance(utterance, Append(log, "console.warn"))
  ELSE SpeakUtterance(utterance, log)

\* speakPrompt / speakWord / speakLetter: the cached audio first; its
\* failure is caught and the request falls through to speak
speakCached(single, cached, neural, utterance) ==
  IF cached = "ended" THEN Settled("resolved", <<>>)
  ELSE IF cached = "none" THEN speak(single, neural, utterance, <<>>)
  ELSE speak(single, neural, utterance, <<"console.warn">>)

SpeechInputs ==
  {r \in [op : SpeechOps, single : BOOLEAN, cached : CachedOutcomes,
          neural : NeuralOutcomes, utterance : UtteranceEvents] :
     /\ r.op = "speakLetter" => r.single
     /\ r.op = "speakPrompt" => ~r.single}

InitSpeech ==
  /\ ttsIn \in SpeechInputs
  /\ ttsOut = NotSpoken
  /\ sepIn = <<>>
  /\ sepOut = NotSeparated
  /\ words = <<>>
  /\ child = [quizLength |-> 1, inputMethod |-> "keyboard"]
  /\ pos0 = <<>>
  /\ wordDrilled = <<>>
  /\ tasks = <<>>
  /\ SessionIdle

\* the promise returned to "await tts.speak...(...)" settles
SpeechSettles ==
  /\ ~ttsOut.done
  /\ LET r == speakCached(ttsIn.single, ttsIn.cached, ttsIn.neural,
                          ttsIn.utterance)
     IN  ttsOut' = [done |-> TRUE, settled |-> r.settled, log |-> r.log]
  /\ UNCHANGED <<words, child, pos0, state, wordDrilled, ps, tasks, dom,
                 keydown, calls, exitPoint, overlaps, sepIn, sepOut, ttsIn>>

NextSpeech == SpeechSettles

SpecSpeech == InitSpeech /\ [][NextSpeech]_vars

(* ------------- the transition to reading, for long sessions ------------ *)
\* the session state when the last of n words has been mastered: n distinct
\* completed words in mastery order, quizLength = n
Mastered(n) ==
  [NoState EXCEPT !.quizLength = n, !.completedCount = n,
                  !.completedWords = [i \in 1..n |-> [id |-> i,
                                                      firstTry |-> TRUE]],
                  !.phase = "spelling"]

InitReading ==
  /\ \E n \in 1..MaxReadLen : state = Mastered(n)
  /\ words = <<>>
  /\ child = [quizLength |-> 1, inputMethod |-> "keyboard"]
  /\ pos0 = <<>>
  /\ wordDrilled = <<>>
  /\ tasks = <<>>
  /\ ps = NoPractice
  /\ dom = NoDom
  /\ keydown = {}
  /\ calls = <<>>
  /\ exitPoint = [exited |-> FALSE, w |-> 0, pcs |-> {}]
  /\ overlaps = 0
  /\ sepIn = <<>>
  /\ sepOut = NotSeparated
  /\ ttsIn = NoSpeech
  /\ ttsOut = NotSpoken

\* render() finds completedCount >= quizLength and calls renderComplete
ReadingTransition ==
  /\ state.phase = "spelling"
  /\ state.completedCount >= state.quizLength
  /\ renderComplete(state, tasks, <<>>)
  /\ UNCHANGED <<words, child, pos0, wordDrilled, ps, keydown, exitPoint,
                 overlaps, sepIn, sepOut, ttsIn, ttsOut>>

NextReading == ReadingTransition

SpecReading == InitReading /\ [][NextReading]_vars

(* ============================== properties ============================= *)
MoveOps == {"moveWordToPosition", "moveWordToBack"}
EagerOps == {"markWordDrilled", "recordAttempt", "recordSightRead"}
LetterOps == {"accept", "reject", "drop"}
TeachPcs == {"T1", "T2", "T3", "T4", "T5", "T6"}

Positions == [id \in DOMAIN words |-> words[id].position]

Count(tks, t) == Cardinality({i \in DOMAIN tks : tks[i] = t})

\* the continuation k of this state ran in the step: its record is gone
Ran(k) == Count(tasks', tasks[k]) < Count(tasks, tasks[k])

\* C1 (cancellation safety): once Exit was clicked, at whatever point of the
\* session, no moveWordToPosition / moveWordToBack call is issued or pending
\* and the persisted queue positions are those of the session start.
C1_CancellationSafety ==
  state.exiting =>
    /\ \A c \in Range(calls) : c.op \notin MoveOps
    /\ Finalizers = {}
    /\ Positions = pos0

\* exit on a reading card whose response was being processed: the pending
\* continuation went on to draw the completion page
C1_Witness ==
  /\ state.exiting
  /\ "S2" \in exitPoint.pcs
  /\ dom.screen = "final"
  /\ state.completedWords # <<>>

\* C2 (mastery monotonicity): completedCount never decreases; it grows by
\* exactly one, and only in the step that completes a word spelled with
\* errorCount = 0; the session is in its reading phase exactly when
\* completedCount = quizLength.
C2_MasteryMonotonic ==
  /\ [](state.phase # "none" =>
          (state.phase = "reading" <=> state.completedCount = state.quizLength))
  /\ [][/\ state'.completedCount >= state.completedCount
        /\ state'.completedCount # state.completedCount =>
             /\ state'.completedCount = state.completedCount + 1
             /\ ps.errorCount = 0
             /\ \E k \in DOMAIN tasks :
                  /\ tasks[k].pc = "C3"
                  /\ tasks[k].w = ps.word
                  /\ Ran(k)]_vars

\* the reading phase was reached although a word had to be retried
C2_Witness ==
  /\ state.phase = "reading"
  /\ state.completedCount = state.quizLength
  /\ state.missedWords # {}

\* C3 (no double credit): a letter event (key or button) that arrives while
\* processing is true is dropped and changes neither the typed input nor the
\* error counter; an event that arrives while it is false yields exactly one
\* decision, accepted (input one letter longer) or rejected (one more error);
\* at most one letter is in flight at a time.
C3_NoDoubleCredit ==
  /\ [](Cardinality({k \in DOMAIN tasks :
                       tasks[k].pc \in {"L1", "L2", "E1", "E2", "E3"}}) <= 1)
  /\ [][(calls' # <<>> /\ calls'[1].op \in LetterOps /\ vars' # vars) =>
          /\ Len(calls') = 1
          /\ IF ps.processing
             THEN /\ calls'[1].op = "drop"
                  /\ ps' = ps
                  /\ tasks' = tasks
                  /\ state' = state
             ELSE \/ /\ calls'[1].op = "accept"
                     /\ Len(ps'.input) = Len(ps.input) + 1
                     /\ ps'.errorCount = ps.errorCount
                  \/ /\ calls'[1].op = "reject"
                     /\ ps'.input = ps.input
                     /\ ps'.errorCount = ps.errorCount + 1]_vars

\* a second tap was dropped while the first letter was still being processed
C3_Witness ==
  /\ calls = <<Call("drop", ps.word, 0)>>
  /\ ps.processing
  /\ Len(ps.input) = 1
  /\ \E k \in DOMAIN tasks : tasks[k].pc = "L1"

\* the words still to be presented, the one on screen first
Upcoming(s, d) == (IF d.current = 0 THEN <<>> ELSE <<d.current>>) \o s.quizQueue

\* C4 (retry placement): the step that completes a word with errors puts it
\* back so that exactly the previous front of the queue precedes it (index
\* 1), or alone when no other word remained; completedCount and
\* completedWords are unchanged by that step.
C4_RetryPlacement ==
  [][\A k \in DOMAIN tasks :
       (tasks[k].pc = "C3" /\ tasks[k].he /\ Ran(k)) =>
         LET before == state.quizQueue
             after == Upcoming(state', dom')
         IN  /\ Len(after) = Len(before) + 1
             /\ IF before = <<>>
                THEN after[1] = tasks[k].w
                ELSE /\ after[1] = before[1]
                     /\ after[2] = tasks[k].w
                     /\ \A i \in 2..Len(before) : after[i + 1] = before[i]
             /\ state'.completedCount = state.completedCount
             /\ state'.completedWords = state.completedWords]_vars

\* a missed word waits behind the word on screen, with another word after it
C4_Witness ==
  /\ state.phase = "spelling"
  /\ Len(state.quizQueue) >= 2
  /\ state.quizQueue[1] \in state.missedWords
  /\ dom.current # 0
  /\ dom.current \notin state.missedWords

C6_BatchExactlyOnce ==
  /\ Cardinality(Finalizers) <= 1
  /\ \A c \in Range(calls) :
       c.op \in MoveOps =>
         /\ state.phase = "reading"
         /\ state.readingIndex >= Len(state.readingQueue)

NonAdjacent(q) ==
  \A i \in 1..(Len(q) - 1) :
    ~AreHomophones(toLowerCase(WordText(q[i])), toLowerCase(WordText(q[i + 1])))

Orderings(q) ==
  {r \in [1..Len(q) -> Range(q)] : \A x \in Range(q) : \E i \in 1..Len(q) : r[i] = x}

\* C7 (homophone non-adjacency): for every sequence of distinct words the
\* separator's output has no two adjacent members of a homophone pair,
\* unless every ordering of the input has such a pair adjacent.
C7_NonAdjacency ==
  (sepOut.done /\ \E r \in Orderings(sepIn) : NonAdjacent(r)) =>
    NonAdjacent(sepOut.queue)

\* C8 (cancelled teaching): when Exit is clicked while the teaching sequence
\* of an untaught word is suspended, the word stays untaught in the store
\* and no markWordDrilled, recordAttempt or recordSightRead is issued,
\* pending or applied for it.
C8_TeachingCancelSafe ==
  (exitPoint.exited /\ exitPoint.pcs \cap TeachPcs # {}) =>
    LET w == exitPoint.w
    IN  /\ ~words[w].drilled
        /\ words[w].attempts = 0
        /\ words[w].sightReadViews = 0
        /\ \A c \in Range(calls) : c.op \in EagerOps => c.w # w
        /\ \A k \in DOMAIN tasks :
             tasks[k].pc \in {"C1", "C2", "S1"} => tasks[k].w # w

\* exit during the letter-by-letter spelling; the continuation has returned
C8_Witness ==
  /\ exitPoint.exited
  /\ "T5" \in exitPoint.pcs
  /\ tasks = <<>>
  /\ ~words[exitPoint.w].drilled

\* C9 (cancelled continuations): once state.exiting is set, no step changes
\* the session state (queue, counts, completed words, missed sets, reading
\* index and results) or the store, and no step starts a store write or a
\* speech request.
C9_ExitStopsContinuations ==
  [][state.exiting =>
       /\ state' = state
       /\ words' = words
       /\ \A c \in Range(calls') :
            calls' # calls => c.op \notin EagerOps \cup {"speak"}]_vars

CompletedMissed(i) ==
  \/ state.completedWords[i].id \in state.missedWords
  \/ WordText(state.completedWords[i].id) \in state.missedReading

\* a run of finalizeQueuePositions is over and none is under way
BatchDone ==
  /\ \A k \in DOMAIN tasks : tasks[k].pc # "F"
  /\ \/ \E k \in DOMAIN tasks : tasks[k].pc = "Y"
     \/ ~dom.attached /\ dom.screen = "final" /\ ~state.exiting

LastPosition == SetMax({words[id].position : id \in Live(words)})

C11_PerfectSession ==
  /\ dom.screen = "final" =>
       /\ perfectSpelling(state) <=> state.missedWords = {}
       /\ perfectReading(state) <=> state.missedReading = {}
       /\ dom.content = "perfect" <=>
            (state.missedWords = {} /\ state.missedReading = {})
  /\ \A c \in Range(calls) :
       (c.op \in MoveOps /\ state.totalErrors = 0 /\ state.missedReading = {})
         => c.op = "moveWordToBack"
  /\ \A k \in DOMAIN tasks :
       (tasks[k].pc = "F" /\ state.totalErrors = 0 /\ state.missedReading = {})
         => tasks[k].mv = "moveWordToBack"

\* a perfect session of two words whose second move-to-back was just issued
C11_Witness ==
  /\ dom.screen = "final"
  /\ dom.content = "perfect"
  /\ Len(state.completedWords) = 2
  /\ \E k \in DOMAIN tasks : tasks[k].pc = "F" /\ tasks[k].i = 2
  /\ \E c \in Range(calls) : c.op = "moveWordToBack"


\* C12 (failed eager write): a step in which markWordDrilled, recordAttempt
\* or recordSightRead rejects leaves the continuation of that word pending,
\* so that its outcome bookkeeping and the next word or card still follow.
C12_WriteFailureContained ==
  [][\A c \in Range(calls') :
       c.op = "rejected" =>
         \E k \in DOMAIN tasks' :
           tasks'[k].w = c.w /\ tasks'[k].pc \in {"C2", "C3", "S2"}]_vars


CallOps(cls) == {cls[i].op : i \in DOMAIN cls}

\* C13 (sync failures): the step in which the pull before the session fails
\* still starts the session (first word, or the no-words page), and the step
\* in which the push after the session fails still calls onComplete and
\* leaves the quiz.
C13_SyncFailureSwallowed ==
  [][/\ "pullFailed" \in CallOps(calls') =>
          /\ "rejected" \notin CallOps(calls')
          /\ \/ state'.phase = "spelling" /\ dom'.screen = "quiz"
             \/ dom'.screen = "empty"
     /\ "pushFailed" \in CallOps(calls') =>
          /\ "rejected" \notin CallOps(calls')
          /\ "onComplete" \in CallOps(calls')
          /\ ~dom'.attached]_vars

\* the push failed after a finished session and the quiz was left
C13_Witness ==
  /\ "pushFailed" \in CallOps(calls)
  /\ "onComplete" \in CallOps(calls)
  /\ dom.screen = "final"
  /\ ~dom.attached


PlaybackFailed ==
  \/ ttsIn.cached \in {"error", "playRejected"}
  \/ ttsIn.neural = "failed" /\ ~ttsIn.single /\ ttsIn.cached # "ended"
  \/ ttsIn.utterance = "error" /\ ttsIn.cached # "ended"
       /\ (ttsIn.single \/ ttsIn.neural # "ok")

\* C14 (playback failure): whichever playback stage of a speech request
\* fails, the promise the session awaits resolves exactly as it does when
\* the audio played, and is never rejected.
C14_PlaybackFailureResolves ==
  ttsOut.done => ttsOut.settled = "resolved"

\* the cached audio, the neural voice and the utterance all failed
C14_Witness ==
  /\ ttsOut.done
  /\ PlaybackFailed
  /\ ttsIn.cached = "error"
  /\ ttsIn.neural = "failed"
  /\ ttsIn.utterance = "error"
  /\ ttsOut.settled = "resolved"
  /\ Len(ttsOut.log) = 3


\* C15 (no words): while the learner has no words the session state and the
\* practice state are never created, no continuation other than the start
\* is pending, only the no-words page is shown, and no store write, move or
\* speech request is issued: the only call out is onComplete.
C15_NoWordsNoSession ==
  Live(words) = {} =>
    /\ state = NoState
    /\ ps = NoPractice
    /\ keydown = {}
    /\ \A k \in DOMAIN tasks : tasks[k].pc = "start"
    /\ dom.screen \in {"none", "empty"}
    /\ CallOps(calls) \subseteq {"onComplete", "pullFailed", "console.error"}

\* the no-words page was shown and left through Back to Menu
C15_Witness ==
  /\ Live(words) = {}
  /\ dom.screen = "empty"
  /\ ~dom.attached
  /\ tasks = <<>>
  /\ "onComplete" \in CallOps(calls)


\* C16 (position uniqueness): after any sequence of completed store
\* operations no two non-deleted words of the learner have the same position.
C16_PositionsUnique ==
  \A i, j \in Live(words) : i # j => words[i].position # words[j].position


Contiguous(ws) ==
  {ws[j].position : j \in Live(ws)} = 0..(Cardinality(Live(ws)) - 1)

\* C17 (normalization): a completed moveWordToBack or moveWordToPosition on
\* one of the learner's non-deleted words leaves the positions of the
\* non-deleted words as exactly 0..n-1, also when they had gaps before.
C17_ReorderNormalizes ==
  [][\A wordId \in Live(words) :
       (\/ /\ "moveWordToBack" \in CallOps(calls')
           /\ words' = moveWordToBack(words, wordId)
        \/ /\ "moveWordToPosition" \in CallOps(calls')
           /\ \E target \in 0..MaxStoreWords :
                words' = moveWordToPosition(words, wordId, target))
         => Contiguous(words')]_vars


\* continuations waiting for markWordDrilled, recordAttempt, recordSightRead
EagerPcs == {"C1", "C2", "S1"}

\* C18 (write classes do not overlap): while a move of the final batch is
\* issued or running, no markWordDrilled, recordAttempt or recordSightRead
\* of the session is still outstanding.
C18_BatchAfterEagerWrites ==
  (\E k \in DOMAIN tasks : tasks[k].pc = "F") =>
    \A k \in DOMAIN tasks : tasks[k].pc \notin EagerPcs


\* the sequence of calls one run of finalizeQueuePositions makes on s
Decisions(s) ==
  [i \in DOMAIN s.completedWords |-> MoveCall(s, s.completedWords[i])]

\* session states that agree with s on completedWords (with the firstTry
\* flags), the two missed sets and quizLength, and differ elsewhere
SameInputs(s) ==
  {[s EXCEPT !.totalErrors = e, !.completedCount = c, !.exiting = x,
             !.quizQueue = q, !.readingResults = <<>>] :
     e \in {0, s.totalErrors + 1}, c \in {0, s.completedCount},
     x \in BOOLEAN, q \in {<<>>, s.quizQueue}}

CorrectionPcs == {"E1", "E2", "E3"}

\* a correction is under way on the current practiceState, which is locked
CorrectionLocked ==
  \A k \in DOMAIN tasks :
     tasks[k].pc \in CorrectionPcs =>
        tasks[k].gen = ps.gen /\ ps.processing /\ ps.errorCount > 0

\* C20 (rejected letter): a rejected letter adds exactly one to the word's
\* error count and takes the lock; the lock is held for the whole
\* correction; the end of the correction empties the typed letters and
\* releases the lock; the error count of a word never goes down, and a word
\* completed with a positive count is completed with hadErrors = TRUE.
C20_RejectedLetter ==
  [][/\ calls' = <<Call("reject", ps.word, 0)>> =>
          /\ ~ps.processing
          /\ ps' = [ps EXCEPT !.errorCount = ps.errorCount + 1,
                              !.processing = TRUE]
     /\ CorrectionLocked'
     /\ \A k \in DOMAIN tasks :
          (Ran(k) /\ tasks[k].pc = "E3") =>
             ps' = [ps EXCEPT !.input = <<>>, !.processing = FALSE]
     /\ ps'.gen = ps.gen => ps'.errorCount >= ps.errorCount
     /\ \A k \in DOMAIN tasks :
          (Ran(k) /\ tasks[k].pc = "L2" /\ ps.errorCount > 0) =>
             \E j \in DOMAIN tasks' :
                /\ tasks'[j].w = tasks[k].w
                /\ tasks'[j].pc \in {"C1", "C2"}
                /\ tasks'[j].he
    ]_vars

\* a word typed to the end after a rejected letter and its correction
C20_Witness ==
  /\ ps.errorCount > 0
  /\ ps.input = ps.targetWord
  /\ \E k \in DOMAIN tasks :
       tasks[k].pc \in {"C1", "C2"} /\ tasks[k].w = ps.word /\ tasks[k].he


\* the calls by which completeQuizWord starts
CompletionOps == {"markWordDrilled", "recordAttempt"}

\* the test of the current practiceState has all its letters
WordTyped == ps.gen # 0 /\ ps.input = ps.targetWord

\* C21 (letter pronunciation and the lock): after an accepted letter that is
\* not the last, the run that starts the pronunciation also releases the
\* lock and leaves no continuation waiting for the speech; after the last
\* letter the pronunciation is awaited, completeQuizWord starts only when
\* it has ended, and the lock of that word is never released again.
C21_PronunciationAndLock ==
  [][/\ \A k \in DOMAIN tasks :
          (Ran(k) /\ tasks[k].pc = "L1" /\ ~WordTyped) =>
             /\ calls' = <<Speak>>
             /\ ~ps'.processing
             /\ Len(tasks') = Len(tasks) - 1
     /\ \A k \in DOMAIN tasks :
          (Ran(k) /\ tasks[k].pc = "L1" /\ WordTyped) =>
             /\ calls' = <<Speak>>
             /\ ps'.processing
             /\ \E j \in DOMAIN tasks' :
                  tasks'[j] = [tasks[k] EXCEPT !.pc = "L2"]
     /\ CallOps(calls') \cap CompletionOps # {} =>
          \E k \in DOMAIN tasks : Ran(k) /\ tasks[k].pc \in {"L2", "C1"}
     /\ WordTyped' => ps'.processing
    ]_vars

\* the last letter of a word of two or more letters is being pronounced
C21_Witness ==
  /\ WordTyped
  /\ Len(ps.input) >= 2
  /\ ps.processing
  /\ calls = <<Speak>>
  /\ \E k \in DOMAIN tasks : tasks[k].pc = "L2" /\ tasks[k].gen = ps.gen


\* C22 (practice more): when a "need more practice" answer is handled, the
\* answered card is the one at readingIndex i of the queue of length L; its
\* word is added to missedReading and inserted again at index min(i + 2, L),
\* readingIndex becomes i + 1, and when a later card exists that card comes
\* next and the retry right after it.
C22_PracticeMoreReinserts ==
  [][\A k \in DOMAIN tasks :
       (Ran(k) /\ tasks[k].pc = "S2" /\ ~tasks[k].rec) =>
          LET i == state.readingIndex
              L == Len(state.readingQueue)
              w == tasks[k].w
          IN  /\ i < L
              /\ state.readingQueue[i + 1].id = w
              /\ state'.missedReading = state.missedReading \cup {WordText(w)}
              /\ Len(state'.readingQueue) = L + 1
              /\ state'.readingQueue[Min(i + 2, L) + 1].id = w
              /\ \A j \in 1..L :
                   state.readingQueue[j] =
                     state'.readingQueue[IF j <= Min(i + 2, L) THEN j
                                         ELSE j + 1]
              /\ state'.readingIndex = i + 1
              /\ i + 1 < L =>
                   /\ state'.readingQueue[i + 2].id # w
                   /\ state'.readingQueue[i + 3].id = w
    ]_vars


\* continuations waiting for the speakWord of a hear-answer click
Playbacks(tks) == {k \in DOMAIN tks : tks[k].pc = "H1"}

\* ... of a click on the page shown now
LivePlaybacks(tks) == {k \in Playbacks(tks) : tks[k].live}

\* handleReadingResponse calls waiting for recordSightRead
Assessments(tks) == {k \in DOMAIN tks : tks[k].pc = "S1"}

IsPermutation(r, q) ==
  /\ Len(r) = Len(q)
  /\ \A x \in Range(q) \cup Range(r) :
       Cardinality({i \in DOMAIN r : r[i] = x})
         = Cardinality({i \in DOMAIN q : q[i] = x})

\* C24 (reading queue): when the session enters the reading phase, the
\* reading queue is a permutation of completedWords, has quizLength entries
\* and no word twice; with 6 or fewer completed words it is completedWords
\* itself.
C24_ReadingQueueAtTransition ==
  [][(state.phase # "reading" /\ state'.phase = "reading") =>
       LET q == state'.readingQueue
       IN  /\ IsPermutation(q, state'.completedWords)
           /\ Len(q) = state'.quizLength
           /\ \A i, j \in DOMAIN q : i # j => q[i].id # q[j].id
           /\ Len(state'.completedWords) <= ShuffleAbove =>
                q = state'.completedWords
           /\ state'.readingIndex = 0
    ]_vars

\* a session of more than 6 words entered reading in an order of its own
C24_Witness ==
  /\ state.phase = "reading"
  /\ dom.screen = "transition"
  /\ Len(state.readingQueue) > ShuffleAbove
  /\ state.readingQueue # state.completedWords


\* continuations that this step created or moved to a new await
Started == {t \in Range(tasks') : Count(tasks', t) > Count(tasks, t)}

\* the await of teachNewWord that t follows, as left by the continuation u
TeachFollows(u, t) ==
  /\ u.w = t.w
  /\ CASE t.pc = "T2" -> u.pc = "T1"
       [] t.pc = "T3" -> u.pc = "T2"
       [] t.pc = "T4" -> u.pc = "T3"
       [] t.pc = "T5" -> \/ u.pc = "T4" /\ t.i = 0
                         \/ u.pc = "T5" /\ t.i = u.i + 1
                                        /\ t.i < Len(WordText(t.w))
       [] t.pc = "T6" -> u.pc = "T5" /\ u.i + 1 = Len(WordText(t.w))
       [] t.pc = "Q1" -> u.pc = "T6"
       [] OTHER -> FALSE

MarkCalls(cls) == {cls[i].w : i \in {j \in DOMAIN cls : cls[j].op = "markWordDrilled"}}

\* C25 (teaching): a word that is untaught when it is shown goes through
\* every await of teachNewWord, in order and letter by letter, before its
\* test starts; markWordDrilled is called for it once, when its first
\* spelling is complete, with or without errors; a word that is taught is
\* tested without teaching.
C25_TeachOnceThenTest ==
  [][/\ \A t \in Started :
          /\ t.pc = "T1" => ~wordDrilled[t.w] /\ ~words[t.w].drilled
          /\ t.pc \in {"T2", "T3", "T4", "T5", "T6"} =>
               \E k \in DOMAIN tasks : Ran(k) /\ TeachFollows(tasks[k], t)
          /\ t.pc = "Q1" =>
               \/ \E k \in DOMAIN tasks : Ran(k) /\ TeachFollows(tasks[k], t)
               \/ wordDrilled[t.w] /\ words[t.w].drilled
     /\ \A k \in DOMAIN tasks :
          (Ran(k) /\ tasks[k].pc = "L2") =>
             (tasks[k].w \in MarkCalls(calls') <=> ~words[tasks[k].w].drilled)
     /\ \A w \in MarkCalls(calls') :
          /\ ~words[w].drilled
          /\ words[w].attempts = 0
          /\ \A k \in DOMAIN tasks' :
               (tasks'[k].pc = "C1" /\ tasks'[k].w = w) =>
                  Count(tasks', tasks'[k]) = 1
     /\ \A w \in DOMAIN words' : wordDrilled'[w] = words'[w].drilled
    ]_vars

\* an untaught word was taught, tested and completed with a wrong letter on
\* the way: markWordDrilled has just been called for it
C25_Witness ==
  /\ calls # <<>>
  /\ \E k \in DOMAIN tasks :
       /\ tasks[k].pc = "C1"
       /\ tasks[k].he
       /\ calls = <<Call("markWordDrilled", tasks[k].w, 0)>>
       /\ ~words[tasks[k].w].drilled


\* the recordAttempt calls among cls
AttemptCalls(cls) == {i \in DOMAIN cls : cls[i].op = "recordAttempt"}

\* the session's bookkeeping of words tested: queue, mastered count and list
Tally(s) == <<s.quizQueue, s.completedCount, s.completedWords>>

NoTestShown ==
  \/ dom.screen = "quiz" /\ dom.content \in {"teach", "prompt", "feedback"}
  \/ dom.screen = "transition"

\* a letter event reached handleLetterInput in this step
LetterHandled ==
  /\ calls' # <<>>
  /\ calls'[1].op \in LetterOps
  /\ (calls' # calls \/ ps' # ps \/ tasks' # tasks)

\* C27 (letters only during a test): while teaching, the prompt before a
\* test, the feedback after a word or the transition to reading is shown,
\* no keydown listener of the session is bound and no letter button is on
\* the page, and no letter event reaches handleLetterInput.
C27_LettersOnlyDuringTest ==
  [][/\ NoTestShown' => keydown' = {} /\ dom'.letterBtns = 0
     /\ LetterHandled =>
          /\ ~NoTestShown
          /\ dom.screen = "quiz" /\ dom.content = "test"
    ]_vars

\* the feedback after a word typed by a learner who has both input methods
C27_Witness ==
  /\ NoTestShown
  /\ dom.content = "feedback"
  /\ child.inputMethod = "hybrid"
  /\ ps.gen # 0
  /\ WordTyped
  /\ keydown = {}
  /\ dom.letterBtns = 0


\* awaits of the chain that teaches, tests and completes one word
WordPcs ==
  TeachPcs \cup {"Q1", "Q2", "Q3", "L1", "L2", "C1", "C2", "C3"}
           \cup CorrectionPcs

\* continuations of that chain
WordChains == {k \in DOMAIN tasks : tasks[k].pc \in WordPcs}

\* C28 (one listener, one word): at most one keydown listener of the session
\* is bound, and it belongs to the current test; at most one word is being
\* taught, tested or completed; once the exit flag is set no keydown
\* listener is bound, then or later.
C28_OneListenerNoneAfterExit ==
  /\ Cardinality(keydown) <= 1
  /\ keydown \subseteq {ps.gen} \ {0}
  /\ Cardinality(WordChains) <= 1
  /\ \A k \in WordChains :
       tasks[k].pc \in TeachPcs \cup {"Q1", "Q2", "Q3"} =>
          keydown = {} /\ dom.letterBtns = 0
  /\ state.exiting => keydown = {}

\* the learner left in the middle of a test that had its key listener bound
C28_Witness ==
  /\ state.exiting
  /\ exitPoint.exited
  /\ child.inputMethod # "onscreen"
  /\ dom.content = "test"
  /\ ps.gen # 0
  /\ ~WordTyped
  /\ ps.input # <<>>
  /\ keydown = {}


\* the word at index from is taken out and put back so that it sits at index
\* to (from < to): the words in between keep their order and move up by one
MoveTo(s, from, to) ==
  SubSeq(s, 1, from - 1) \o SubSeq(s, from + 1, to) \o <<s[from]>>
    \o SubSeq(s, to + 1, Len(s))

Collide(q, i) ==
  AreHomophones(toLowerCase(WordText(q[i])), toLowerCase(WordText(q[i + 1])))

\* the first position after the pair at i, i + 1 whose occupant is no
\* homophone partner of the word at i; 0 when there is none
FirstLater(q, i) ==
  LET free == {j \in (i + 2)..Len(q) :
                 ~AreHomophones(toLowerCase(WordText(q[i])),
                                toLowerCase(WordText(q[j])))}
  IN  IF free = {} THEN 0 ELSE CHOOSE j \in free : \A x \in free : j <= x

\* the relocation as stated: scanning from the front, the second word of an
\* adjacent colliding pair goes to the first later position whose occupant
\* is no homophone partner of the first word; the statement names no
\* outcome when there is no such position (<<>> here)
RECURSIVE RelocateFrom(_, _)
RelocateFrom(result, i) ==
  IF i > Len(result) - 1 THEN result
  ELSE IF Collide(result, i)
       THEN LET j == FirstLater(result, i)
            IN  IF j = 0 THEN <<>>
                ELSE RelocateFrom(MoveTo(result, i + 1, j), i + 1)
       ELSE RelocateFrom(result, i + 1)

\* C29 (separator): the output is a permutation of the input; it is the
\* input itself when the input has fewer than 2 words or no adjacent
\* homophones; otherwise the second word of every adjacent colliding pair
\* is relocated to the first later position whose occupant is no homophone
\* partner of the first word, and all other words keep their relative order.
C29_SeparatorRelocates ==
  sepOut.done =>
    /\ IsPermutation(sepOut.queue, sepIn)
    /\ (Len(sepIn) < 2 \/ NonAdjacent(sepIn)) => sepOut.queue = sepIn
    /\ ~(Len(sepIn) < 2 \/ NonAdjacent(sepIn)) =>
         sepOut.queue = RelocateFrom(sepIn, 1)

\* the same, with a colliding pair that has no such position left as it is
RECURSIVE RelocateOrLeave(_, _)
RelocateOrLeave(result, i) ==
  IF i > Len(result) - 1 THEN result
  ELSE IF Collide(result, i)
       THEN LET j == FirstLater(result, i)
            IN  IF j = 0 THEN RelocateOrLeave(result, i + 1)
                ELSE RelocateOrLeave(MoveTo(result, i + 1, j), i + 1)
       ELSE RelocateOrLeave(result, i + 1)

\* C29 as it holds: for a queue of words with distinct texts the output is
\* a permutation of the input, the input itself when it has fewer than 2
\* words or no adjacent homophones, and otherwise the input with the second
\* word of each colliding pair met in the scan relocated to the first later
\* position whose occupant is no partner of the first word, when there is
\* such a position; a pair with none is left adjacent.
C29_SeparatorRelocatesIfPossible ==
  sepOut.done =>
    /\ IsPermutation(sepOut.queue, sepIn)
    /\ (Len(sepIn) < 2 \/ NonAdjacent(sepIn)) => sepOut.queue = sepIn
    /\ sepOut.queue = RelocateOrLeave(sepIn, 1)

\* a queue of four words whose colliding pair was parted by the separator
C29_Witness ==
  /\ sepOut.done
  /\ Len(sepIn) = 4
  /\ Collide(sepIn, 1)
  /\ sepOut.queue # sepIn
  /\ NonAdjacent(sepOut.queue)


\* "else if (!completedWord.firstTry)": the second rule of
\* finalizeQueuePositions decides for completedWord
SecondRuleTaken(s, completedWord) ==
  /\ completedWord.id \notin s.missedWords
  /\ WordText(completedWord.id) \notin s.missedReading
  /\ ~completedWord.firstTry

\* C30 (firstTry and the missed set): a completed word has firstTry = FALSE
\* exactly when its id is in missedWords, so the second rule of the final
\* reordering never decides for any completed word.
C30_FirstTryIffNotMissed ==
  \A i \in DOMAIN state.completedWords :
     LET cw == state.completedWords[i]
     IN  /\ ~cw.firstTry <=> cw.id \in state.missedWords
         /\ ~SecondRuleTaken(state, cw)

\* a word mastered on its retry, with the final reordering under way
C30_Witness ==
  /\ dom.screen = "final"
  /\ \E i \in DOMAIN state.completedWords :
       /\ ~state.completedWords[i].firstTry
       /\ state.completedWords[i].id \in state.missedWords
  /\ \E i \in DOMAIN state.completedWords : state.completedWords[i].firstTry
  /\ \E k \in DOMAIN tasks : tasks[k].pc = "F"


\* no two non-deleted words of the learner share a position
UniquePositions(ws) ==
  \A i, j \in Live(ws) : i # j => ws[i].position # ws[j].position

\* targets the move is called with
MoveTargets == -1..(MaxStoreWords + 1)

\* the words other than wordId keep their order from queue ws to queue r
SameOrder(ws, r, wordId) ==
  \A i, j \in Live(ws) \ {wordId} :
     ws[i].position < ws[j].position => r[i].position < r[j].position

\* C31 (move to position): on a queue of n words with distinct positions,
\* moveWordToPosition(word, t) leaves the word at max(0, min(t, n-1)), keeps
\* the other words in their order, changes positions only, changes nothing
\* when the word is at that position already or is not stored, and leaves
\* positions that were 0..n-1 as 0..n-1.
C31_MoveToPosition ==
  UniquePositions(words) =>
    LET n == Cardinality(Live(words))
        stored == DOMAIN words
        deleted == stored \ Live(words)
        ordered == Contiguous(words)
    IN  \A wordId \in StoreIds \ deleted, target \in MoveTargets :
          LET r == moveWordToPosition(words, wordId, target)
              t == Max(0, Min(target, n - 1))
          IN  IF wordId \notin stored THEN r = words
              ELSE /\ r[wordId].position = t
                   /\ SameOrder(words, r, wordId)
                   /\ \A j \in stored :
                        r[j] = [words[j] EXCEPT !.position = r[j].position]
                   /\ words[wordId].position = t => r = words
                   /\ ordered => Contiguous(r)

\* a queue of three words just after a move that changed it could change it
\* again
C31_Witness ==
  /\ calls = <<Call("moveWordToPosition", 0, 0)>>
  /\ Cardinality(Live(words)) = 3
  /\ UniquePositions(words)
  /\ \E wordId \in Live(words) :
       /\ words[wordId].position = 2
       /\ moveWordToPosition(words, wordId, 0) # words


\* the store differs from ws in the one word w, by the given increments of
\* its counters and by the taught flag when taught is set
Written(ws, r, w, a, s, e, v, kn, taught) ==
  /\ DOMAIN r = DOMAIN ws
  /\ \A j \in DOMAIN ws \ {w} : r[j] = ws[j]
  /\ r[w].position = ws[w].position
  /\ r[w].deleted = ws[w].deleted
  /\ r[w].attempts = ws[w].attempts + a
  /\ r[w].successes = ws[w].successes + s
  /\ r[w].errors = ws[w].errors + e
  /\ r[w].sightReadViews = ws[w].sightReadViews + v
  /\ r[w].sightReadKnown = ws[w].sightReadKnown + kn
  /\ r[w].drilled = (ws[w].drilled \/ taught)

\* the eager store calls as functions of the store, for every argument
EagerWrites(ws) ==
  \A w \in DOMAIN ws, b \in BOOLEAN, errorDelta \in 0..MaxErrors :
     /\ Written(ws, recordAttempt(ws, w, b, errorDelta), w,
                1, B2N(b), errorDelta, 0, 0, FALSE)
     /\ Written(ws, recordSightRead(ws, w, b), w, 0, 0, 0, 1, B2N(b), FALSE)
     /\ Written(ws, markWordDrilled(ws, w), w, 0, 0, 0, 0, 0, TRUE)

\* continuations that wait for an eager store write
EagerWaits == {"C1", "C2", "S1"}

\* C32 (eager writes): recordAttempt changes only attempts (+1), successes
\* (+1 iff success) and errors (+errorDelta) of the word, recordSightRead only
\* its sight-read views (+1) and known (+1 iff recognized), markWordDrilled
\* only its taught flag, for every argument; a session step in which such a
\* write settles changes the store in no other way, and no word's position.
C32_EagerWritesKeepOrder ==
  [][\A k \in DOMAIN tasks :
       tasks[k].pc \in EagerWaits /\ Ran(k) =>
            LET w == tasks[k].w
                failed == "rejected" \in CallOps(calls')
            IN  /\ EagerWrites(words)
                /\ [id \in DOMAIN words' |-> words'[id].position] = Positions
                /\ failed => words' = words
                /\ ~failed /\ tasks[k].pc = "C1" =>
                     Written(words, words', w, 0, 0, 0, 0, 0, TRUE)
                /\ ~failed /\ tasks[k].pc = "C2" =>
                     \E e \in 0..MaxErrors :
                        Written(words, words', w, 1, B2N(~tasks[k].he), e,
                                0, 0, FALSE)
                /\ ~failed /\ tasks[k].pc = "S1" =>
                     Written(words, words', w, 0, 0, 0, 1,
                             B2N(tasks[k].rec), FALSE)]_vars

\* a word was taught, spelled and read in the session and is where it was
C32_Witness ==
  \E w \in DOMAIN words :
     /\ words[w].drilled
     /\ words[w].attempts > 0
     /\ words[w].sightReadViews > 0
     /\ words[w].position = pos0[w]


(* ------------------- per-learner merge of cloud data -------------------- *)
MaxMergeWords == 3
MaxMergeDeleted == 1
MaxCloudWords == 1

CloudTexts == {<<"t", "o">>, <<"N", "o">>}

\* a word of the cloud export: text, taught flag and attempt counter (never
\* or once attempted)
CloudWordSet ==
  {[text |-> t, drilled |-> d, attempts |-> B2N(a)] :
     t \in CloudTexts, d \in BOOLEAN, a \in BOOLEAN}

CloudLists ==
  UNION {[1..n -> CloudWordSet] : n \in 1..MaxCloudWords}

\* mergeChildData, one cloud word: localWords is the queue read before the
\* loop, ws the store so far, wordsAdded the words added so far
mergeCloudWord(ws, localWords, cloudWord, wordsAdded) ==
  LET matches == {i \in DOMAIN localWords :
                    toLowerCase(ws[localWords[i]].text)
                      = toLowerCase(cloudWord.text)}
  IN  IF matches # {}
      THEN LET id == localWords[CHOOSE i \in matches :
                                  \A m \in matches : i <= m]
               localWord == ws[id]
               taught == [ws EXCEPT ![id].drilled =
                            @ \/ cloudWord.drilled]
           IN  IF cloudWord.attempts > localWord.attempts
               THEN [taught EXCEPT ![id].attempts = cloudWord.attempts,
                                   ![id].successes = 0,
                                   ![id].errors = 0]
               ELSE taught
      ELSE Append(ws,
                  [StoredWord(cloudWord.text,
                              Len(localWords) + wordsAdded)
                     EXCEPT !.drilled = cloudWord.drilled,
                            !.attempts = cloudWord.attempts])

RECURSIVE mergeFrom(_, _, _, _, _)
mergeFrom(ws, localWords, cloudWords, i, first) ==
  IF i > Len(cloudWords) THEN ws
  ELSE mergeFrom(mergeCloudWord(ws, localWords, cloudWords[i],
                                Len(ws) - first),
                 localWords, cloudWords, i + 1, first)

mergeChildData(ws, cloudWords) ==
  mergeFrom(ws, getWords(ws), cloudWords, 1, Len(ws))

MergeCreateWord(text) ==
  /\ StoreSize(words) < MaxMergeWords
  /\ StoreStep(createWord(words, text), "createWord")

MergeDeleteWord(wordId) ==
  /\ Cardinality(DOMAIN words \ Live(words)) < MaxMergeDeleted
  /\ StoreStep(deleteWord(words, wordId), "deleteWord")

MergeChildData(cloudWords) ==
  /\ StoreSize(mergeChildData(words, cloudWords)) <= MaxMergeWords
  /\ StoreStep(mergeChildData(words, cloudWords), "mergeChildData")

NextMerge ==
  \/ \E text \in CloudTexts : MergeCreateWord(text)
  \/ \E wordId \in StoreIds : MergeDeleteWord(wordId)
  \/ \E cloudWords \in CloudLists : MergeChildData(cloudWords)

SpecMerge == InitStore /\ [][NextMerge]_vars

\* C33 (merge appends): a word the per-learner merge adds from the cloud gets
\* a position greater than the position of every word the learner had before
\* the merge, whatever those positions were.
C33_MergedWordAtEnd ==
  [][calls' = <<Call("mergeChildData", 0, 0)>> =>
       \A id \in (DOMAIN words') \ (DOMAIN words), j \in Live(words) :
          words'[id].position > words[j].position]_vars


\* continuations whose next step calls render()
RenderPcs == {"start", "C3"}

\* C34 (non-empty pop): every render() of the spelling phase that has to
\* show a next word finds one at the front of the working queue, so a word
\* under test exists afterwards.
C34_PopFindsWord ==
  [][\A k \in DOMAIN tasks :
       /\ tasks[k].pc \in RenderPcs
       /\ Ran(k)
       /\ state'.phase = "spelling"
       /\ state'.completedCount < state'.quizLength
       /\ dom'.screen = "quiz"
       => /\ dom'.current # 0
          /\ \E j \in DOMAIN tasks' :
               tasks'[j].w = dom'.current /\ tasks'[j].pc \in {"Q1", "T1"}]_vars


\* the words renderDailyQuiz took for the session
Snapshot ==
  Range(SubSeq(getWords(words), 1,
               Min(state.quizLength, Cardinality(Live(words)))))

\* the word render() popped last, as long as it is taught, tested or
\* completed, or is still the word of the quiz page
CurrentWord ==
  {tasks[k].w : k \in WordChains}
    \cup (IF dom.screen = "quiz" THEN {dom.current} \ {0} ELSE {})

CompletedIds == {state.completedWords[i].id : i \in DOMAIN state.completedWords}

\* C35 (word conservation): in the spelling phase every word taken for the
\* session is in exactly one of the working queue, the current word and the
\* completed words, none of them twice, and completedCount is the number of
\* completed words.
C35_WordConservation ==
  state.phase = "spelling" =>
    /\ Cardinality(Range(state.quizQueue)) = Len(state.quizQueue)
    /\ Cardinality(CompletedIds) = Len(state.completedWords)
    /\ Cardinality(CurrentWord) <= 1
    /\ Range(state.quizQueue) \cap CurrentWord = {}
    /\ Range(state.quizQueue) \cap CompletedIds = {}
    /\ CurrentWord \cap CompletedIds = {}
    /\ Range(state.quizQueue) \cup CurrentWord \cup CompletedIds = Snapshot
    /\ Len(state.quizQueue) + Cardinality(CurrentWord)
         + Len(state.completedWords) = Cardinality(Snapshot)
    /\ state.completedCount = Len(state.completedWords)


\* three words were taken: one is mastered, one is under test and one, typed
\* with a wrong letter before, waits in the working queue
C35_Witness ==
  /\ state.phase = "spelling"
  /\ Cardinality(Snapshot) = 3
  /\ Len(state.completedWords) = 1
  /\ Cardinality(CurrentWord) = 1
  /\ Len(state.quizQueue) = 1
  /\ Range(state.quizQueue) \subseteq state.missedWords


IsPrefix(a, b) == Len(a) <= Len(b) /\ a = SubSeq(b, 1, Len(a))

\* continuations of the current test from the awaited last letter on
Signalled ==
  {k \in DOMAIN tasks :
     tasks[k].pc \in {"L2", "C1", "C2", "C3"} /\ tasks[k].gen = ps.gen}

\* C36 (typed prefix): the letters typed so far in a word test are a prefix
\* of the target word; an accepted letter leads on to the completion of the
\* word if and only if the typed letters then equal the target, and while the
\* completion of the current test is under way they equal it.
C36_TypedIsPrefix ==
  [][/\ ps'.gen # 0 => IsPrefix(ps'.input, ps'.targetWord)
     /\ \A k \in DOMAIN tasks :
          Ran(k) /\ tasks[k].pc = "L1" =>
             ((\E t \in Started : t.pc = "L2" /\ t.w = tasks[k].w)
                <=> ps.input = ps.targetWord)
     /\ \A t \in Started :
          t.pc = "L2" => \E k \in DOMAIN tasks : Ran(k) /\ tasks[k].pc = "L1"
     /\ Signalled' # {} => ps'.input = ps'.targetWord
    ]_vars

\* after a wrong letter and the correction the word was typed again in full
\* and its last letter is being spoken
C36_Witness ==
  /\ ps.errorCount > 0
  /\ ps.input = ps.targetWord
  /\ Len(ps.input) > 1
  /\ \E k \in Signalled : tasks[k].pc = "L2"


\* C37 (one outcome per card): an answer to a reading card starts exactly
\* one response, with one recordSightRead call, and no response to a card is
\* under way at that moment, however often the answer controls are used;
\* a response that finishes moves the reading index on by one from the card
\* it answers.
C37_OneOutcomePerCard ==
  [][/\ (\E t \in Started : t.pc = "S1") =>
          /\ Assessments(tasks) = {}
          /\ Len(calls') = 1
          /\ calls'[1].op = "recordSightRead"
     /\ \A k \in DOMAIN tasks :
          Ran(k) /\ tasks[k].pc = "S2" =>
             /\ state.readingIndex < Len(state.readingQueue)
             /\ state.readingQueue[state.readingIndex + 1].id = tasks[k].w
             /\ state'.readingIndex = state.readingIndex + 1
    ]_vars


\* entries of readingResults for one word
ResultsOf(w) ==
  {i \in DOMAIN state.readingResults : state.readingResults[i].word = w}

\* C38 (reading ends recognized): when the reading phase is over and the
\* final page is shown, readingResults holds one recognized entry for each
\* completed word and no other (quizLength entries), every card of the
\* reading queue has been shown, and a word answered 'need more practice' is
\* in the queue again after that answer, so its last answer is 'got it'.
C38_ReadingEndsRecognized ==
  dom.screen = "final" =>
    /\ Len(state.readingResults) = state.quizLength
    /\ \A w \in CompletedIds :
         /\ Cardinality(ResultsOf(w)) = 1
         /\ \A i \in ResultsOf(w) : state.readingResults[i].recognized
    /\ state.readingIndex = Len(state.readingQueue)
    /\ \A w \in CompletedIds :
         WordText(w) \in state.missedReading =>
           Cardinality({i \in DOMAIN state.readingQueue :
                          state.readingQueue[i].id = w}) > 1
    /\ state.readingQueue[Len(state.readingQueue)].id
         = state.readingResults[Len(state.readingResults)].word


\* C39 (missed before mastered): after the final batch every completed word
\* that was missed in spelling or reading has a smaller stored position than
\* every completed word the batch moved to the back as mastered.
C39_MissedBeforeMastered ==
  BatchDone =>
    \A i, j \in DOMAIN state.completedWords :
      /\ CompletedMissed(i)
      /\ FinalMove(state, state.completedWords[j]) = "moveWordToBack"
      => words[state.completedWords[i].id].position
           < words[state.completedWords[j].id].position


\* C40 (errors counted): when the attempt of a word completed after k wrong
\* letters is recorded, the store's error count of the word grows by k, and
\* when the word's completion ends the session's error total grows by k.
C40_ErrorsCounted ==
  [][/\ \A k \in DOMAIN tasks :
          /\ tasks[k].pc = "C2"
          /\ Ran(k)
          /\ "rejected" \notin CallOps(calls')
          => words'[tasks[k].w].errors
               = words[tasks[k].w].errors + ps.errorCount
     /\ \A k \in DOMAIN tasks :
          tasks[k].pc = "C3" /\ Ran(k) =>
             state'.totalErrors = state.totalErrors + ps.errorCount
    ]_vars

====
